---- MODULE Spec2Model ----
(***************************************************************************)
(* Model of the ion-dao governance contract (contracts/dao) together with  *)
(* the ion-stake contract it queries for voting power (contracts/stake).   *)
(*                                                                         *)
(* One action per handler of contracts/dao/src/execute.rs.  A call that   *)
(* returns Err is a step that changes only `resp` (the host reverts every  *)
(* storage write of a failed call).  Messages returned in a Response are   *)
(* dispatched by the host inside the same transaction, so their effect is  *)
(* part of the action that returns them.                                   *)
(*                                                                         *)
(* Durations are height based (Duration::Height), as in the test suite.    *)
(***************************************************************************)
EXTENDS Integers, Sequences, FiniteSets, TLC

\* ------------------------------------------------------------------ bounds

\* last block height the model explores
MaxHeight == 4

\* number of Propose calls that may succeed
MaxProposals == 2

\* the same, where the stakers keep staking and unstaking
MaxStakeProposals == 1

\* gov tokens each user holds at the start
InitFunds == 3

\* the same, in the specifications with staking calls or several proposals
TightFunds == 2

\* number of Stake / Unstake calls after the genesis staking
MaxStakeOps == 1
SnapshotOps == 3

\* state::MAX_CLAIMS of the staking contract, the most claims one address may
\* have outstanding: the model takes a small value for it
MAX_CLAIMS == 2

\* ------------------------------------------------------------------ universe

Users == {"u1", "u2"}

\* env.contract.address of the dao and of the staking contract
DAO == "dao"

STAKE == "stake"

VoteOptions == {"Yes", "No", "Abstain", "Veto"}

\* ------------------------------------------------------------------ Decimal
\* cosmwasm_std::Decimal is a u128 of atomics with 18 fractional digits.  The
\* atomics are kept as little-endian limbs of base 1000, so that 10^18 is one
\* unit of the 7th limb and 10^9 is one unit of the 4th.

RECURSIVE LimbsToInt(_)
LimbsToInt(s) == IF s = <<>> THEN 0 ELSE Head(s) + 1000 * LimbsToInt(Tail(s))

RECURSIVE MulLimbs(_, _, _)
MulLimbs(d, w, carry) ==
    IF d = <<>>
    THEN IF carry = 0 THEN <<>>
         ELSE <<carry % 1000>> \o MulLimbs(<<>>, w, carry \div 1000)
    ELSE LET t == Head(d) * w + carry
         IN  <<t % 1000>> \o MulLimbs(Tail(d), w, t \div 1000)

DropLimbs(s, k) == IF Len(s) <= k THEN <<>> ELSE SubSeq(s, k + 1, Len(s))

LowLimbsZero(s, k) == \A i \in 1..k : i > Len(s) \/ s[i] = 0

\* Decimal::percent(x): x * 10^16 atomics
DecimalPercent(x) == <<0, 0, 0, 0, 0, (x * 10) % 1000, (x * 10) \div 1000>>

\* Decimal::permille(x): x * 10^15 atomics
DecimalPermille(x) == <<0, 0, 0, 0, 0, x % 1000, x \div 1000>>

DecimalIsZero(d) == \A i \in 1..Len(d) : d[i] = 0

\* d > Decimal::one()
DecimalGtOne(d) == d[7] > 1 \/ (d[7] = 1 /\ \E i \in 1..6 : d[i] # 0)

\* ------------------------------------------------------------------ proposal.rs

PRECISION_FACTOR == 1000000000

RECURSIVE LimbsOf(_)
LimbsOf(n) == IF n <= 1 THEN 0 ELSE 1 + LimbsOf(n \div 1000)

\* applied = percentage * Uint128(PRECISION_FACTOR * weight)
\*         = floor(atomics * PRECISION_FACTOR * weight / 10^18)
\* result  = (applied + PRECISION_FACTOR - 1) / PRECISION_FACTOR
votes_needed(weight, percentage) ==
    LET pl      == LimbsOf(PRECISION_FACTOR)
        applied == DropLimbs(MulLimbs(percentage, weight, 0), 6 - pl)
    IN  LimbsToInt(DropLimbs(applied, pl))
          + (IF LowLimbsZero(applied, pl) THEN 0 ELSE 1)

VotesDefault == [yes |-> 0, no |-> 0, abstain |-> 0, veto |-> 0]

VotesTotal(v) == v.yes + v.no + v.abstain + v.veto

\* Votes::submit with the arms of No and Abstain exchanged
VotesSubmit_arms_exchanged(v, vote, weight) ==
    CASE vote = "Yes"     -> [v EXCEPT !.yes = @ + weight]
      [] vote = "Abstain" -> [v EXCEPT !.no = @ + weight]
      [] vote = "No"      -> [v EXCEPT !.abstain = @ + weight]
      [] vote = "Veto"    -> [v EXCEPT !.veto = @ + weight]

VotesSubmit(v, vote, weight) ==
    CASE vote = "Yes"     -> [v EXCEPT !.yes = @ + weight]
      [] vote = "Abstain" -> [v EXCEPT !.abstain = @ + weight]
      [] vote = "No"      -> [v EXCEPT !.no = @ + weight]
      [] vote = "Veto"    -> [v EXCEPT !.veto = @ + weight]

\* checked_sub(..).unwrap(): a negative bucket cannot be stored, the call panics
VotesRevokeOk(v, vote, weight) ==
    CASE vote = "Yes"     -> v.yes >= weight
      [] vote = "No"      -> v.no >= weight
      [] vote = "Abstain" -> v.abstain >= weight
      [] vote = "Veto"    -> v.veto >= weight

\* Votes::revoke that leaves the old contribution in the tally
VotesRevoke_nothing(v, vote, weight) == v

VotesRevoke(v, vote, weight) ==
    CASE vote = "Yes"     -> [v EXCEPT !.yes = @ - weight]
      [] vote = "No"      -> [v EXCEPT !.no = @ - weight]
      [] vote = "Abstain" -> [v EXCEPT !.abstain = @ - weight]
      [] vote = "Veto"    -> [v EXCEPT !.veto = @ - weight]

\* Expiration::AtHeight(h).is_expired(block)
is_expired(at, h) == h >= at

\* helpers.rs duration_to_expiry, Duration::Height
duration_to_expiry(h, period) == h + period

\* activate_voting_period that leaves vote_ends_at as the proposal was created
\* with
activate_voting_period_keeping_end(prop, h, voting_period) ==
    [prop EXCEPT !.status = "Open", !.vote_starts_at = h]

activate_voting_period(prop, h, voting_period) ==
    [prop EXCEPT !.status = "Open",
                 !.vote_starts_at = h,
                 !.vote_ends_at = duration_to_expiry(h, voting_period)]

\* is_vetoed reading the bucket of No in place of the bucket of Veto
is_vetoed_by_no(prop) ==
    prop.votes.no >= votes_needed(prop.total_weight, prop.threshold.veto_threshold)

is_vetoed(prop) ==
    prop.votes.veto >= votes_needed(prop.total_weight, prop.threshold.veto_threshold)

\* is_passed with the abstentions left among the opinions
is_passed_counting_abstain(prop) ==
    IF VotesTotal(prop.votes) < votes_needed(prop.total_weight, prop.threshold.quorum)
    THEN FALSE
    ELSE LET opinions == VotesTotal(prop.votes)
             passed   == prop.votes.yes >= votes_needed(opinions, prop.threshold.threshold)
         IN  ~is_vetoed(prop) /\ passed

is_passed(prop) ==
    IF VotesTotal(prop.votes) < votes_needed(prop.total_weight, prop.threshold.quorum)
    THEN FALSE
    ELSE LET opinions == VotesTotal(prop.votes) - prop.votes.abstain
             passed   == prop.votes.yes >= votes_needed(opinions, prop.threshold.threshold)
         IN  ~is_vetoed(prop) /\ passed

\* current_status as in cw3: an Open proposal whose tally passes is Passed at
\* once
current_status_early(prop, h) ==
    CASE prop.status = "Pending" ->
           IF prop.deposit_base_amount <= prop.total_deposit THEN "Open"
           ELSE IF is_expired(prop.deposit_ends_at, h) THEN "Rejected"
           ELSE "Pending"
      [] prop.status = "Open" ->
           IF is_passed(prop) THEN "Passed"
           ELSE IF is_expired(prop.vote_ends_at, h) THEN "Rejected"
           ELSE "Open"
      [] OTHER -> prop.status

current_status(prop, h) ==
    CASE prop.status = "Pending" ->
           IF prop.deposit_base_amount <= prop.total_deposit THEN "Open"
           ELSE IF is_expired(prop.deposit_ends_at, h) THEN "Rejected"
           ELSE "Pending"
      [] prop.status = "Open" ->
           IF is_expired(prop.vote_ends_at, h)
           THEN IF is_passed(prop) THEN "Passed" ELSE "Rejected"
           ELSE "Open"
      [] OTHER -> prop.status

\* ------------------------------------------------------------------ state

VARIABLES
    height,                     \* env.block.height
    bank,                       \* native gov-token balances (bank module)
    CONFIG,                     \* state.rs CONFIG
    DAO_PAUSED,                 \* state.rs DAO_PAUSED
    PROPOSAL_COUNT,             \* state.rs PROPOSAL_COUNT
    PROPOSALS,                  \* state.rs PROPOSALS: id -> Proposal
    IDX_PROPS_BY_STATUS,        \* set of <<status, id>>
    IDX_PROPS_BY_PROPOSER,      \* set of <<proposer, id>>
    BALLOTS,                    \* <<id, voter>> -> Ballot
    DEPOSITS,                   \* <<id, depositor>> -> Deposit
    IDX_DEPOSITS_BY_DEPOSITOR,  \* set of <<depositor, id>>
    STAKING_CONTRACT,           \* state.rs STAKING_CONTRACT: the address queried
    TREASURY_TOKENS,            \* state.rs TREASURY_TOKENS: set of <<type, denom>>
    BALANCE,                    \* stake: tokens held for the stakers
    STAKED_BALANCES,            \* stake: SnapshotMap, [cur, log]
    STAKED_TOTAL,               \* stake: SnapshotItem, [cur, log]
    UNSTAKING_DURATION,         \* stake: CONFIG.unstaking_duration
    CLAIMS,                     \* stake: CLAIMS, address -> sequence of Claim
    stake_ops,                  \* number of Stake / Unstake calls so far
    resp                        \* outcome of the last call

daoVars == <<CONFIG, DAO_PAUSED, PROPOSAL_COUNT, PROPOSALS, IDX_PROPS_BY_STATUS,
             IDX_PROPS_BY_PROPOSER, BALLOTS, DEPOSITS, IDX_DEPOSITS_BY_DEPOSITOR,
             STAKING_CONTRACT, TREASURY_TOKENS>>

stakeVars == <<BALANCE, STAKED_BALANCES, STAKED_TOTAL, UNSTAKING_DURATION, CLAIMS,
              stake_ops>>

vars == <<height, bank, daoVars, stakeVars, resp>>

\* ------------------------------------------------------------------ maps

MapHas(m, k) == k \in DOMAIN m

MapPut(m, k, v) == [x \in (DOMAIN m) \cup {k} |-> IF x = k THEN v ELSE m[x]]

EmptyMap == [x \in {} |-> 0]

RECURSIVE SumOver(_, _)
SumOver(f, S) ==
    IF S = {} THEN 0
    ELSE LET x == CHOOSE y \in S : TRUE IN f[x] + SumOver(f, S \ {x})

\* ------------------------------------------------------------------ stake contract
\* cw-storage-plus snapshots with Strategy::EveryBlock: the first write to a key
\* in a block records the value the key had before it; a read at height h
\* returns the old value of the first changelog entry at a height >= h, and
\* the current value when there is none.  Absent values read as 0
\* (unwrap_or_default).

\* a write that logs the value it replaces on every write, not on the first
\* write of the block only
SnapshotWrite_logging_each(snap, k, h, v) ==
    [cur |-> MapPut(snap.cur, k, v),
     log |-> MapPut(snap.log, <<k, h>>,
                    IF MapHas(snap.cur, k) THEN snap.cur[k] ELSE 0)]

SnapshotWrite(snap, k, h, v) ==
    [cur |-> MapPut(snap.cur, k, v),
     log |-> IF MapHas(snap.log, <<k, h>>) THEN snap.log
             ELSE MapPut(snap.log, <<k, h>>,
                         IF MapHas(snap.cur, k) THEN snap.cur[k] ELSE 0)]

SnapshotLoad(snap, k) == IF MapHas(snap.cur, k) THEN snap.cur[k] ELSE 0

SnapshotLoadAtHeight(snap, k, h) ==
    LET later == {e \in DOMAIN snap.log : e[1] = k /\ e[2] >= h}
    IN  IF later = {} THEN SnapshotLoad(snap, k)
        ELSE LET first == CHOOSE e \in later : \A o \in later : e[2] <= o[2]
             IN  snap.log[first]

\* query_staked_balance_at_height with height: Some(h)
query_staked_balance_at_height(address, h) ==
    SnapshotLoadAtHeight(STAKED_BALANCES, address, h)

\* query_total_staked_at_height with height: Some(h)
query_total_staked_at_height(h) == SnapshotLoadAtHeight(STAKED_TOTAL, "total", h)

\* ------------------------------------------------------------------ helpers.rs

\* A staking contract other than the one the dao instantiated: one in which
\* nobody has staked, so that each of its queries answers 0.
NEW_STAKE == "stake2"

\* TotalStakedAtHeight { height: None } sent to STAKING_CONTRACT: the height of
\* the querying block
get_total_staked_supply ==
    IF STAKING_CONTRACT = STAKE THEN query_total_staked_at_height(height) ELSE 0

\* the query sent with height: None, which the stake contract reads at the
\* height of the querying block
get_voting_power_at_height_now(address, h) ==
    query_staked_balance_at_height(address, height)

\* StakedBalanceAtHeight { height: Some(h) } sent to STAKING_CONTRACT
get_voting_power_at_height(address, h) ==
    IF STAKING_CONTRACT = STAKE THEN query_staked_balance_at_height(address, h) ELSE 0

\* ------------------------------------------------------------------ bank

BankSend(b, from, to, amount) ==
    [b EXCEPT ![from] = @ - amount, ![to] = @ + amount]

\* ------------------------------------------------------------------ threshold.rs

\* valid_percentage without the test for zero
valid_percentage_allowing_zero(percent) ==
    IF DecimalGtOne(percent) THEN "UnreachableThreshold" ELSE ""

\* "" for Ok(())
valid_percentage(percent) ==
    IF DecimalIsZero(percent) THEN "ZeroThreshold"
    ELSE IF DecimalGtOne(percent) THEN "UnreachableThreshold"
    ELSE ""

ThresholdValidate(t) ==
    IF valid_percentage(t.threshold) # "" THEN valid_percentage(t.threshold)
    ELSE IF valid_percentage(t.quorum) # "" THEN valid_percentage(t.quorum)
    ELSE valid_percentage(t.veto_threshold)

\* ------------------------------------------------------------------ configurations

\* the configuration the dao is instantiated with (the test suite's thresholds
\* and a 2 : 1 deposit requirement, periods in blocks)
InitConfig ==
    [threshold |-> [threshold      |-> DecimalPercent(50),
                    quorum         |-> DecimalPercent(33),
                    veto_threshold |-> DecimalPercent(33)],
     voting_period        |-> 2,
     deposit_period       |-> 2,
     proposal_deposit     |-> 2,
     proposal_min_deposit |-> 1]

\* a configuration an UpdateConfig message of a proposal carries
RaisedConfig == [InitConfig EXCEPT !.proposal_deposit = 3]

\* a valid configuration with other thresholds and periods (threshold = 1)
StrictConfig ==
    [InitConfig EXCEPT !.threshold = [threshold      |-> DecimalPercent(100),
                                      quorum         |-> DecimalPercent(50),
                                      veto_threshold |-> DecimalPercent(50)],
                       !.voting_period = 1,
                       !.deposit_period = 1]

\* configurations Threshold::validate turns down
ZeroQuorumConfig == [InitConfig EXCEPT !.threshold.quorum = DecimalPercent(0)]

UnreachableVetoConfig ==
    [InitConfig EXCEPT !.threshold.veto_threshold = DecimalPercent(101)]

UpdateConfigMsg(cfg) == [type |-> "update_config", config |-> cfg]

UpdateStakingContractMsg(addr) ==
    [type |-> "update_staking_contract", new_staking_contract |-> addr]

UpdateTokenListMsg(to_add, to_remove) ==
    [type |-> "update_token_list", to_add |-> to_add, to_remove |-> to_remove]

GovDenom == <<"native", "gov">>

Cw20Denom == <<"cw20", "token">>

PauseDAOMsg(exp) == [type |-> "pause_dao", expiration |-> exp]

BankSendMsg(to, amount) == [type |-> "bank_send", to |-> to, amount |-> amount]

AtHeight(h) == [kind |-> "AtHeight", h |-> h]

NotPaused == [kind |-> "None", h |-> 0]

\* Expiration::Never {}: is_expired answers false at every block
Never == [kind |-> "Never", h |-> 0]

\* the message batches a proposal may carry
MsgBatches ==
    { <<>>,
      <<UpdateConfigMsg(RaisedConfig)>>,
      <<PauseDAOMsg(AtHeight(MaxHeight))>> }

\* the batches of the proposals that administer the dao
AdminBatches ==
    { <<UpdateConfigMsg(StrictConfig)>>,
      <<UpdateConfigMsg(ZeroQuorumConfig)>>,
      <<UpdateConfigMsg(UnreachableVetoConfig)>>,
      <<PauseDAOMsg(AtHeight(MaxHeight))>>,
      <<UpdateStakingContractMsg(NEW_STAKE)>>,
      <<UpdateTokenListMsg(<<Cw20Denom>>, <<GovDenom>>)>> }

\* ------------------------------------------------------------------ execute.rs helpers

\* check_paused that still refuses in the block named by the expiration
check_paused_one_block_late ==
    IF DAO_PAUSED.kind = "None" THEN ""
    ELSE IF DAO_PAUSED.kind = "AtHeight" /\ height > DAO_PAUSED.h THEN ""
    ELSE "Paused"

\* "" for Ok(())
check_paused ==
    IF DAO_PAUSED.kind = "None" THEN ""
    ELSE IF DAO_PAUSED.kind = "AtHeight" /\ is_expired(DAO_PAUSED.h, height) THEN ""
    ELSE "Paused"

check_status(origin_status, desired_status) ==
    IF origin_status # desired_status THEN "InvalidProposalStatus" ELSE ""

\* the stores touched by the proposal handlers, as one record
Store ==
    [props   |-> PROPOSALS,
     byStat  |-> IDX_PROPS_BY_STATUS,
     byProp  |-> IDX_PROPS_BY_PROPOSER,
     deps    |-> DEPOSITS,
     byDep   |-> IDX_DEPOSITS_BY_DEPOSITOR]

create_proposal(st, prop_id, proposer, proposal) ==
    [st EXCEPT !.props  = MapPut(@, prop_id, proposal),
               !.byStat = @ \cup {<<proposal.status, prop_id>>},
               !.byProp = @ \cup {<<proposer, prop_id>>}]

DepositDefault == [amount |-> 0, claimed |-> FALSE]

\* create_deposit that stores the new payment in place of the sum
create_deposit_overwriting(st, prop_id, depositor, amount) ==
    LET key     == <<prop_id, depositor>>
        deposit == IF MapHas(st.deps, key) THEN st.deps[key] ELSE DepositDefault
    IN  [st EXCEPT !.byDep = IF deposit.amount = 0
                             THEN @ \cup {<<depositor, prop_id>>} ELSE @,
                   !.deps  = MapPut(@, key, [deposit EXCEPT !.amount = amount])]

create_deposit(st, prop_id, depositor, amount) ==
    LET key     == <<prop_id, depositor>>
        deposit == IF MapHas(st.deps, key) THEN st.deps[key] ELSE DepositDefault
    IN  [st EXCEPT !.byDep = IF deposit.amount = 0
                             THEN @ \cup {<<depositor, prop_id>>} ELSE @,
                   !.deps  = MapPut(@, key, [deposit EXCEPT !.amount = @ + amount])]

make_deposit_claimable(st, prop_id) ==
    [st EXCEPT !.props[prop_id].deposit_claimable = TRUE]

\* update_proposal_status without the removal of the old index entry
update_proposal_status_keeping_old(st, prop_id, before, desired) ==
    [st EXCEPT !.props[prop_id].status = desired,
               !.byStat = @ \cup {<<desired, prop_id>>}]

\* update_proposal_status that also captures threshold and total_weight anew
update_proposal_status_recapturing(st, prop_id, before, desired) ==
    [st EXCEPT !.props[prop_id].status = desired,
               !.props[prop_id].threshold = CONFIG.threshold,
               !.props[prop_id].total_weight = get_total_staked_supply,
               !.byStat = (@ \ {<<before, prop_id>>}) \cup {<<desired, prop_id>>}]

\* `before` is the status of the handler's in-memory copy of the proposal
update_proposal_status(st, prop_id, before, desired) ==
    [st EXCEPT !.props[prop_id].status = desired,
               !.byStat = (@ \ {<<before, prop_id>>}) \cup {<<desired, prop_id>>}]

CommitStore(st) ==
    /\ PROPOSALS' = st.props
    /\ IDX_PROPS_BY_STATUS' = st.byStat
    /\ IDX_PROPS_BY_PROPOSER' = st.byProp
    /\ DEPOSITS' = st.deps
    /\ IDX_DEPOSITS_BY_DEPOSITOR' = st.byDep

\* the Response of a call that returns Ok: its attributes and its messages.
\* `replaced` is history, not an attribute: the option of the ballot a Vote
\* overwrote ("" when the call overwrote none).
Response(action, sender, id, result, messages) ==
    [action |-> action, sender |-> sender, id |-> id, err |-> "", result |-> result,
     messages |-> messages, replaced |-> ""]

\* a call that returns Err: nothing but the outcome is kept
Fail(action, id, err) ==
    /\ resp' = [action |-> action, sender |-> "", id |-> id, err |-> err, result |-> "",
                messages |-> <<>>, replaced |-> ""]
    /\ UNCHANGED <<height, bank, daoVars, stakeVars>>

\* ------------------------------------------------------------------ admin handlers

update_config_error(sender, update_config_msg) ==
    IF sender # DAO THEN "Unauthorized"
    ELSE ThresholdValidate(update_config_msg.threshold)

pause_dao_error(sender) == IF sender # DAO THEN "Unauthorized" ELSE ""

\* update_staking_contract without the test of the sender
update_staking_contract_error_open(sender) == ""

update_staking_contract_error(sender) == IF sender # DAO THEN "Unauthorized" ELSE ""

MAX_LIMIT == 30

update_token_list_error(sender, to_add, to_remove) ==
    IF sender # DAO THEN "Unauthorized"
    ELSE IF Len(to_add) + Len(to_remove) > MAX_LIMIT THEN "OversizedRequest"
    ELSE ""

SeqRange(q) == {q[i] : i \in 1..Len(q)}

\* every to_add entry is saved, then every to_remove entry is removed
update_token_list(tokens, to_add, to_remove) ==
    (tokens \cup SeqRange(to_add)) \ SeqRange(to_remove)

\* what a failing message of a Response fails the transaction with
DispatchErrors ==
    {"InsufficientFunds", "Unauthorized", "ZeroThreshold", "UnreachableThreshold",
     "OversizedRequest"}

\* The host runs the messages of a Response in order, each with the dao as
\* info.sender; one failing message fails the whole transaction.
RECURSIVE Dispatch(_, _)
Dispatch(env, msgs) ==
    IF msgs = <<>> \/ ~env.ok THEN env
    ELSE LET m == Head(msgs)
             next ==
               CASE m.type = "bank_send" ->
                      IF env.bank[DAO] >= m.amount
                      THEN [env EXCEPT !.bank = BankSend(@, DAO, m.to, m.amount)]
                      ELSE [env EXCEPT !.ok = FALSE, !.err = "InsufficientFunds"]
                 [] m.type = "update_config" ->
                      IF update_config_error(DAO, m.config) = ""
                      THEN [env EXCEPT !.cfg = m.config]
                      ELSE [env EXCEPT !.ok = FALSE,
                                       !.err = update_config_error(DAO, m.config)]
                 [] m.type = "pause_dao" ->
                      IF pause_dao_error(DAO) = ""
                      THEN [env EXCEPT !.paused = m.expiration]
                      ELSE [env EXCEPT !.ok = FALSE, !.err = pause_dao_error(DAO)]
                 [] m.type = "update_staking_contract" ->
                      IF update_staking_contract_error(DAO) = ""
                      THEN [env EXCEPT !.staking = m.new_staking_contract]
                      ELSE [env EXCEPT !.ok = FALSE,
                                       !.err = update_staking_contract_error(DAO)]
                 [] m.type = "update_token_list" ->
                      IF update_token_list_error(DAO, m.to_add, m.to_remove) = ""
                      THEN [env EXCEPT !.tokens =
                                update_token_list(@, m.to_add, m.to_remove)]
                      ELSE [env EXCEPT !.ok = FALSE,
                                       !.err = update_token_list_error(DAO, m.to_add,
                                                                       m.to_remove)]
         IN  Dispatch(next, Tail(msgs))

DispatchEnv(b) ==
    [ok |-> TRUE, err |-> "", bank |-> b, cfg |-> CONFIG, paused |-> DAO_PAUSED,
     staking |-> STAKING_CONTRACT, tokens |-> TREASURY_TOKENS]

\* ------------------------------------------------------------------ execute.rs handlers

\* next_id that hands out the stored counter as it is
next_id_without_increment == PROPOSAL_COUNT

\* state.rs next_id: the id it returns is also the counter it saves
next_id == PROPOSAL_COUNT + 1

\* query.rs proposal_count: the number of keys of PROPOSALS
proposal_count == Cardinality(DOMAIN PROPOSALS)

DEFAULT_LIMIT == 10

\* helpers.rs proposal_to_response: the status shown is current_status at the
\* block of the query, the other fields are the stored ones
proposal_to_response(id, prop) ==
    [id            |-> id,
     proposer      |-> prop.proposer,
     status        |-> current_status(prop, height),
     votes         |-> prop.votes,
     total_votes   |-> VotesTotal(prop.votes),
     total_weight  |-> prop.total_weight,
     total_deposit |-> prop.total_deposit]

\* the ids of a set in ascending order
RECURSIVE Ascending(_)
Ascending(S) ==
    IF S = {} THEN <<>>
    ELSE LET least == CHOOSE x \in S : \A y \in S : x <= y
         IN  <<least>> \o Ascending(S \ {least})

\* Iterator::take(limit)
Take(q, limit) == SubSeq(q, 1, IF Len(q) < limit THEN Len(q) ELSE limit)

\* query.rs proposals with FindByStatus { status }, start None, limit None and
\* order None: the ids under the prefix `status` of IDX_PROPS_BY_STATUS in
\* ascending order, each loaded from PROPOSALS and turned into a response
proposals_find_by_status(status) ==
    LET ids == Take(Ascending({k[2] : k \in {e \in IDX_PROPS_BY_STATUS : e[1] = status}}),
                    DEFAULT_LIMIT)
    IN  [i \in 1..Len(ids) |-> proposal_to_response(ids[i], PROPOSALS[ids[i]])]

\* propose without the test of the total supply
propose_error_any_supply(received) ==
    IF check_paused # "" THEN check_paused
    ELSE IF received < CONFIG.proposal_min_deposit THEN "Unauthorized"
    ELSE ""

propose_error(received) ==
    IF check_paused # "" THEN check_paused
    ELSE IF received < CONFIG.proposal_min_deposit THEN "Unauthorized"
    ELSE IF get_total_staked_supply = 0 THEN "LackOfStakes"
    ELSE ""

\* the proposal of propose with total_deposit left at zero, the payment of
\* the proposer not counted
NewProposal_without_initial_deposit(sender, received, msgs) ==
    [proposer            |-> sender,
     msgs                |-> msgs,
     status              |-> "Pending",
     submitted_at        |-> height,
     deposit_ends_at     |-> duration_to_expiry(height, CONFIG.deposit_period),
     vote_starts_at      |-> 0,
     vote_ends_at        |-> duration_to_expiry(height,
                                 CONFIG.deposit_period + CONFIG.voting_period),
     votes               |-> VotesDefault,
     threshold           |-> CONFIG.threshold,
     total_weight        |-> get_total_staked_supply,
     total_deposit       |-> 0,
     deposit_base_amount |-> CONFIG.proposal_deposit,
     deposit_claimable   |-> FALSE]

NewProposal(sender, received, msgs) ==
    [proposer            |-> sender,
     msgs                |-> msgs,
     status              |-> "Pending",
     submitted_at        |-> height,
     deposit_ends_at     |-> duration_to_expiry(height, CONFIG.deposit_period),
     vote_starts_at      |-> 0,
     vote_ends_at        |-> duration_to_expiry(height,
                                 CONFIG.deposit_period + CONFIG.voting_period),
     votes               |-> VotesDefault,
     threshold           |-> CONFIG.threshold,
     total_weight        |-> get_total_staked_supply,
     total_deposit       |-> received,
     deposit_base_amount |-> CONFIG.proposal_deposit,
     deposit_claimable   |-> FALSE]

Propose(sender, received, msgs) ==
    /\ received <= bank[sender]
    /\ IF propose_error(received) # ""
       THEN Fail("propose", 0, propose_error(received))
       ELSE LET opens == received >= CONFIG.proposal_deposit
                prop  == IF opens
                         THEN activate_voting_period(NewProposal(sender, received, msgs),
                                                     height, CONFIG.voting_period)
                         ELSE NewProposal(sender, received, msgs)
                gap   == IF opens THEN received - CONFIG.proposal_deposit ELSE 0
                out   == IF gap > 0 THEN <<BankSendMsg(sender, gap)>> ELSE <<>>
                id    == next_id
                st    == create_proposal(create_deposit(Store, id, sender, received),
                                         id, sender, prop)
                env   == Dispatch(DispatchEnv(BankSend(bank, sender, DAO, received)), out)
            IN  /\ PROPOSAL_COUNT' = id
                /\ CommitStore(st)
                /\ BALLOTS' = BALLOTS
                /\ bank' = env.bank
                /\ resp' = Response("propose", sender, id, prop.status, out)
                /\ UNCHANGED <<height, CONFIG, DAO_PAUSED, STAKING_CONTRACT,
                               TREASURY_TOKENS, stakeVars>>

\* deposit without the test of the stored status
deposit_error_any_status(prop_id, received) ==
    IF check_paused # "" THEN check_paused
    ELSE IF received = 0 THEN "Unauthorized"
    ELSE IF ~MapHas(PROPOSALS, prop_id) THEN "NotFound"
    ELSE IF is_expired(PROPOSALS[prop_id].deposit_ends_at, height) THEN "Expired"
    ELSE ""

deposit_error(prop_id, received) ==
    IF check_paused # "" THEN check_paused
    ELSE IF received = 0 THEN "Unauthorized"
    ELSE IF ~MapHas(PROPOSALS, prop_id) THEN "NotFound"
    ELSE IF check_status(PROPOSALS[prop_id].status, "Pending") # ""
         THEN "InvalidProposalStatus"
    ELSE IF is_expired(PROPOSALS[prop_id].deposit_ends_at, height) THEN "Expired"
    ELSE ""

Deposit(sender, prop_id, received) ==
    /\ received <= bank[sender]
    /\ IF deposit_error(prop_id, received) # ""
       THEN Fail("deposit", prop_id, deposit_error(prop_id, received))
       ELSE LET st1   == create_deposit(Store, prop_id, sender, received)
                prop  == [PROPOSALS[prop_id] EXCEPT !.total_deposit = @ + received]
                opens == prop.total_deposit >= CONFIG.proposal_deposit
                \* update_proposal_status, activate_voting_period, PROPOSALS.save
                st2   == IF opens
                         THEN [update_proposal_status(st1, prop_id, prop.status, "Open")
                                 EXCEPT !.props[prop_id] =
                                   activate_voting_period(prop, height, CONFIG.voting_period)]
                         ELSE [st1 EXCEPT !.props[prop_id] = prop]
                gap   == IF opens THEN prop.total_deposit - CONFIG.proposal_deposit ELSE 0
                out   == IF gap > 0 THEN <<BankSendMsg(sender, gap)>> ELSE <<>>
                env   == Dispatch(DispatchEnv(BankSend(bank, sender, DAO, received)), out)
            IN  IF ~env.ok
                THEN Fail("deposit", prop_id, "InsufficientFunds")
                ELSE /\ CommitStore(st2)
                     /\ bank' = env.bank
                     /\ resp' = Response("deposit", sender, prop_id,
                                         IF opens THEN "open" ELSE "pending", out)
                     /\ UNCHANGED <<height, CONFIG, DAO_PAUSED, PROPOSAL_COUNT, BALLOTS,
                                    STAKING_CONTRACT, TREASURY_TOKENS, stakeVars>>

\* claim_deposit without the test of deposit.claimed
claim_deposit_error_repeatable(sender, prop_id) ==
    IF check_paused # "" THEN check_paused
    ELSE IF ~MapHas(PROPOSALS, prop_id) THEN "NotFound"
    ELSE IF ~PROPOSALS[prop_id].deposit_claimable THEN "DepositNotClaimable"
    ELSE IF ~MapHas(DEPOSITS, <<prop_id, sender>>) THEN "NotFound"
    ELSE ""

claim_deposit_error(sender, prop_id) ==
    IF check_paused # "" THEN check_paused
    ELSE IF ~MapHas(PROPOSALS, prop_id) THEN "NotFound"
    ELSE IF ~PROPOSALS[prop_id].deposit_claimable THEN "DepositNotClaimable"
    ELSE IF ~MapHas(DEPOSITS, <<prop_id, sender>>) THEN "NotFound"
    ELSE IF DEPOSITS[<<prop_id, sender>>].claimed THEN "DepositAlreadyClaimed"
    ELSE ""

ClaimDeposit(sender, prop_id) ==
    IF claim_deposit_error(sender, prop_id) # ""
    THEN Fail("claim_deposit", prop_id, claim_deposit_error(sender, prop_id))
    ELSE LET deposit == DEPOSITS[<<prop_id, sender>>]
             out     == <<BankSendMsg(sender, deposit.amount)>>
             env     == Dispatch(DispatchEnv(bank), out)
         IN  IF ~env.ok
             THEN Fail("claim_deposit", prop_id, "InsufficientFunds")
             ELSE /\ DEPOSITS' = [DEPOSITS EXCEPT ![<<prop_id, sender>>].claimed = TRUE]
                  /\ bank' = env.bank
                  /\ resp' = Response("claim_deposit", sender, prop_id, "", out)
                  /\ UNCHANGED <<height, CONFIG, DAO_PAUSED, PROPOSAL_COUNT, PROPOSALS,
                                 IDX_PROPS_BY_STATUS, IDX_PROPS_BY_PROPOSER, BALLOTS,
                                 IDX_DEPOSITS_BY_DEPOSITOR, STAKING_CONTRACT,
                                 TREASURY_TOKENS, stakeVars>>

\* vote without the test of the voting power
vote_error_any_power(sender, prop_id) ==
    IF check_paused # "" THEN check_paused
    ELSE IF ~MapHas(PROPOSALS, prop_id) THEN "NotFound"
    ELSE IF check_status(PROPOSALS[prop_id].status, "Open") # ""
         THEN "InvalidProposalStatus"
    ELSE IF is_expired(PROPOSALS[prop_id].vote_ends_at, height) THEN "Expired"
    ELSE ""

\* vote without the test of vote_ends_at
vote_error_after_end(sender, prop_id) ==
    IF check_paused # "" THEN check_paused
    ELSE IF ~MapHas(PROPOSALS, prop_id) THEN "NotFound"
    ELSE IF check_status(PROPOSALS[prop_id].status, "Open") # ""
         THEN "InvalidProposalStatus"
    ELSE IF get_voting_power_at_height(sender, PROPOSALS[prop_id].vote_starts_at) = 0
         THEN "Unauthorized"
    ELSE ""

vote_error(sender, prop_id) ==
    IF check_paused # "" THEN check_paused
    ELSE IF ~MapHas(PROPOSALS, prop_id) THEN "NotFound"
    ELSE IF check_status(PROPOSALS[prop_id].status, "Open") # ""
         THEN "InvalidProposalStatus"
    ELSE IF is_expired(PROPOSALS[prop_id].vote_ends_at, height) THEN "Expired"
    ELSE IF get_voting_power_at_height(sender, PROPOSALS[prop_id].vote_starts_at) = 0
         THEN "Unauthorized"
    ELSE IF /\ MapHas(BALLOTS, <<prop_id, sender>>)
            /\ ~VotesRevokeOk(PROPOSALS[prop_id].votes,
                              BALLOTS[<<prop_id, sender>>].vote,
                              BALLOTS[<<prop_id, sender>>].weight)
         THEN "Panic"
    ELSE ""

Vote(sender, prop_id, vote) ==
    IF vote_error(sender, prop_id) # ""
    THEN Fail("vote", prop_id, vote_error(sender, prop_id))
    ELSE LET prop       == PROPOSALS[prop_id]
             vote_power == get_voting_power_at_height(sender, prop.vote_starts_at)
             key        == <<prop_id, sender>>
             revoked    == IF MapHas(BALLOTS, key)
                           THEN VotesRevoke(prop.votes, BALLOTS[key].vote,
                                            BALLOTS[key].weight)
                           ELSE prop.votes
             votes      == VotesSubmit(revoked, vote, vote_power)
         IN  /\ BALLOTS' = MapPut(BALLOTS, key, [weight |-> vote_power, vote |-> vote])
             /\ PROPOSALS' = [PROPOSALS EXCEPT ![prop_id].votes = votes]
             /\ resp' = [Response("vote", sender, prop_id, vote, <<>>) EXCEPT
                           !.replaced = IF MapHas(BALLOTS, key) THEN BALLOTS[key].vote
                                        ELSE ""]
             /\ UNCHANGED <<height, bank, CONFIG, DAO_PAUSED, PROPOSAL_COUNT,
                            IDX_PROPS_BY_STATUS, IDX_PROPS_BY_PROPOSER, DEPOSITS,
                            IDX_DEPOSITS_BY_DEPOSITOR, STAKING_CONTRACT, TREASURY_TOKENS,
                            stakeVars>>

\* execute as in cw3: a proposal is executable as soon as its tally passes
execute_error_early(prop_id) ==
    IF check_paused # "" THEN check_paused
    ELSE IF ~MapHas(PROPOSALS, prop_id) THEN "NotFound"
    ELSE IF PROPOSALS[prop_id].status = "Open" /\ is_passed(PROPOSALS[prop_id]) THEN ""
    ELSE "InvalidProposalStatus"

execute_error(prop_id) ==
    IF check_paused # "" THEN check_paused
    ELSE IF ~MapHas(PROPOSALS, prop_id) THEN "NotFound"
    ELSE IF ~is_expired(PROPOSALS[prop_id].vote_ends_at, height) THEN "NotExpired"
    ELSE check_status(current_status(PROPOSALS[prop_id], height), "Passed")

Execute(prop_id) ==
    IF execute_error(prop_id) # ""
    THEN Fail("execute", prop_id, execute_error(prop_id))
    ELSE LET prop == PROPOSALS[prop_id]
             st   == make_deposit_claimable(
                        update_proposal_status(Store, prop_id, prop.status, "Executed"),
                        prop_id)
             env  == Dispatch(DispatchEnv(bank), prop.msgs)
         IN  IF ~env.ok
             THEN Fail("execute", prop_id, env.err)
             ELSE /\ CommitStore(st)
                  /\ CONFIG' = env.cfg
                  /\ DAO_PAUSED' = env.paused
                  /\ STAKING_CONTRACT' = env.staking
                  /\ TREASURY_TOKENS' = env.tokens
                  /\ bank' = env.bank
                  /\ resp' = Response("execute", "", prop_id, "", prop.msgs)
                  /\ UNCHANGED <<height, PROPOSAL_COUNT, BALLOTS, stakeVars>>

\* close without the arm that turns down every status but Pending and Open
close_error_any_status(prop_id) ==
    IF check_paused # "" THEN check_paused
    ELSE IF ~MapHas(PROPOSALS, prop_id) THEN "NotFound"
    ELSE LET prop == PROPOSALS[prop_id]
         IN  IF prop.status = "Pending" /\ ~is_expired(prop.deposit_ends_at, height)
             THEN "NotExpired"
             ELSE IF prop.status = "Open" /\ ~is_expired(prop.vote_ends_at, height)
             THEN "NotExpired"
             ELSE check_status(current_status(prop, height), "Rejected")

\* close without the test of the recomputed outcome
close_error_any_outcome(prop_id) ==
    IF check_paused # "" THEN check_paused
    ELSE IF ~MapHas(PROPOSALS, prop_id) THEN "NotFound"
    ELSE LET prop == PROPOSALS[prop_id]
         IN  IF prop.status = "Pending"
             THEN IF ~is_expired(prop.deposit_ends_at, height) THEN "NotExpired" ELSE ""
             ELSE IF prop.status = "Open"
             THEN IF ~is_expired(prop.vote_ends_at, height) THEN "NotExpired" ELSE ""
             ELSE "InvalidProposalStatus"

close_error(prop_id) ==
    IF check_paused # "" THEN check_paused
    ELSE IF ~MapHas(PROPOSALS, prop_id) THEN "NotFound"
    ELSE LET prop == PROPOSALS[prop_id]
         IN  IF prop.status = "Pending"
             THEN IF ~is_expired(prop.deposit_ends_at, height) THEN "NotExpired"
                  ELSE check_status(current_status(prop, height), "Rejected")
             ELSE IF prop.status = "Open"
             THEN IF ~is_expired(prop.vote_ends_at, height) THEN "NotExpired"
                  ELSE check_status(current_status(prop, height), "Rejected")
             ELSE "InvalidProposalStatus"

\* the test of close without prev_status == Status::Open
close_refunds_unless_vetoed(prev_status, prop) == ~is_vetoed(prop)

\* prev_status == Status::Open && !prop.is_vetoed(): refund, else confiscate
close_refunds(prev_status, prop) == prev_status = "Open" /\ ~is_vetoed(prop)

\* info.sender of Execute and Close is anyone: it decides nothing
Close(prop_id) ==
    IF close_error(prop_id) # ""
    THEN Fail("close", prop_id, close_error(prop_id))
    ELSE LET prop        == PROPOSALS[prop_id]
             prev_status == prop.status
             st1         == update_proposal_status(Store, prop_id, prop.status, "Rejected")
             refund      == close_refunds(prev_status, prop)
             st2         == IF refund THEN make_deposit_claimable(st1, prop_id) ELSE st1
         IN  /\ CommitStore(st2)
             /\ resp' = Response("close", "", prop_id,
                                 IF refund THEN "refund" ELSE "confiscate", <<>>)
             /\ UNCHANGED <<height, bank, CONFIG, DAO_PAUSED, PROPOSAL_COUNT, BALLOTS,
                            STAKING_CONTRACT, TREASURY_TOKENS, stakeVars>>

\* ------------------------------------------------------------------ admin calls
\* The four handlers as entry points of ExecuteMsg, called by `sender`.

UpdateConfig(sender, update_config_msg) ==
    IF update_config_error(sender, update_config_msg) # ""
    THEN Fail("update_config", 0, update_config_error(sender, update_config_msg))
    ELSE /\ CONFIG' = update_config_msg
         /\ resp' = Response("update_config", sender, 0, "", <<>>)
         /\ UNCHANGED <<height, bank, DAO_PAUSED, PROPOSAL_COUNT, PROPOSALS,
                        IDX_PROPS_BY_STATUS, IDX_PROPS_BY_PROPOSER, BALLOTS, DEPOSITS,
                        IDX_DEPOSITS_BY_DEPOSITOR, STAKING_CONTRACT, TREASURY_TOKENS,
                        stakeVars>>

PauseDAO(sender, expiration) ==
    IF pause_dao_error(sender) # ""
    THEN Fail("pause_dao", 0, pause_dao_error(sender))
    ELSE /\ DAO_PAUSED' = expiration
         /\ resp' = Response("pause_dao", sender, 0, "", <<>>)
         /\ UNCHANGED <<height, bank, CONFIG, PROPOSAL_COUNT, PROPOSALS,
                        IDX_PROPS_BY_STATUS, IDX_PROPS_BY_PROPOSER, BALLOTS, DEPOSITS,
                        IDX_DEPOSITS_BY_DEPOSITOR, STAKING_CONTRACT, TREASURY_TOKENS,
                        stakeVars>>

UpdateStakingContract(sender, new_staking_contract) ==
    IF update_staking_contract_error(sender) # ""
    THEN Fail("update_staking_contract", 0, update_staking_contract_error(sender))
    ELSE /\ STAKING_CONTRACT' = new_staking_contract
         /\ resp' = Response("update_staking_contract", sender, 0, "", <<>>)
         /\ UNCHANGED <<height, bank, CONFIG, DAO_PAUSED, PROPOSAL_COUNT, PROPOSALS,
                        IDX_PROPS_BY_STATUS, IDX_PROPS_BY_PROPOSER, BALLOTS, DEPOSITS,
                        IDX_DEPOSITS_BY_DEPOSITOR, TREASURY_TOKENS, stakeVars>>

UpdateTokenList(sender, to_add, to_remove) ==
    IF update_token_list_error(sender, to_add, to_remove) # ""
    THEN Fail("update_token_list", 0, update_token_list_error(sender, to_add, to_remove))
    ELSE /\ TREASURY_TOKENS' = update_token_list(TREASURY_TOKENS, to_add, to_remove)
         /\ resp' = Response("update_token_list", sender, 0, "", <<>>)
         /\ UNCHANGED <<height, bank, CONFIG, DAO_PAUSED, PROPOSAL_COUNT, PROPOSALS,
                        IDX_PROPS_BY_STATUS, IDX_PROPS_BY_PROPOSER, BALLOTS, DEPOSITS,
                        IDX_DEPOSITS_BY_DEPOSITOR, STAKING_CONTRACT, stakeVars>>

\* ------------------------------------------------------------------ stake/src/contract.rs

\* Option<Duration>: None, or Some(Duration::Height(n))
NoDuration == [kind |-> "None", n |-> 0]

DurationHeight(n) == [kind |-> "Height", n |-> n]

\* duration.after(&env.block): Expiration::AtHeight(block.height + n)
DurationAfter(duration, h) == h + duration.n

\* cw-controllers Claims: the claims of an address, oldest first
query_claims(claims, addr) == IF MapHas(claims, addr) THEN claims[addr] ELSE <<>>

create_claim(claims, addr, amount, release_at) ==
    MapPut(claims, addr,
           Append(query_claims(claims, addr),
                  [amount |-> amount, release_at |-> release_at]))

RECURSIVE SumAmounts(_)
SumAmounts(cs) == IF cs = <<>> THEN 0 ELSE Head(cs).amount + SumAmounts(Tail(cs))

Matured(c) == is_expired(c.release_at, height)

Waiting(c) == ~Matured(c)

\* claim_tokens with cap None: what the matured claims of addr amount to
claim_tokens(claims, addr) == SumAmounts(SelectSeq(query_claims(claims, addr), Matured))

\* execute_stake that adds the tokens received to the staked total, not the
\* stake minted for them
execute_stake_total_by_tokens(sender, amount) ==
    LET balance         == BALANCE
        staked_total    == SnapshotLoad(STAKED_TOTAL, "total")
        amount_to_stake == IF staked_total = 0 \/ balance = 0 THEN amount
                           ELSE (staked_total * amount) \div balance
    IN  /\ STAKED_BALANCES' = SnapshotWrite(STAKED_BALANCES, sender, height,
                                  SnapshotLoad(STAKED_BALANCES, sender) + amount_to_stake)
        /\ STAKED_TOTAL' = SnapshotWrite(STAKED_TOTAL, "total", height,
                                  staked_total + amount)
        /\ BALANCE' = balance + amount

execute_stake(sender, amount) ==
    LET balance         == BALANCE
        staked_total    == SnapshotLoad(STAKED_TOTAL, "total")
        amount_to_stake == IF staked_total = 0 \/ balance = 0 THEN amount
                           ELSE (staked_total * amount) \div balance
    IN  /\ STAKED_BALANCES' = SnapshotWrite(STAKED_BALANCES, sender, height,
                                  SnapshotLoad(STAKED_BALANCES, sender) + amount_to_stake)
        /\ STAKED_TOTAL' = SnapshotWrite(STAKED_TOTAL, "total", height,
                                  staked_total + amount_to_stake)
        /\ BALANCE' = balance + amount

Stake(sender, amount) ==
    /\ stake_ops < MaxStakeOps
    /\ amount <= bank[sender]
    /\ execute_stake(sender, amount)
    /\ stake_ops' = stake_ops + 1
    /\ UNCHANGED <<UNSTAKING_DURATION, CLAIMS>>
    /\ bank' = BankSend(bank, sender, STAKE, amount)
    /\ resp' = Response("stake", sender, 0, "", <<>>)
    /\ UNCHANGED <<height, daoVars>>

\* execute_unstake without the test of the number of outstanding claims
unstake_error_any_claims(sender, amount) ==
    IF ~MapHas(STAKED_TOTAL.cur, "total") THEN "NotFound"
    ELSE IF SnapshotLoad(STAKED_TOTAL, "total") = 0 THEN "DivideByZero"
    ELSE IF SnapshotLoad(STAKED_BALANCES, sender) < amount THEN "Overflow"
    ELSE IF SnapshotLoad(STAKED_TOTAL, "total") < amount THEN "Overflow"
    ELSE IF BALANCE < (amount * BALANCE) \div SnapshotLoad(STAKED_TOTAL, "total")
         THEN "Overflow"
    ELSE ""

\* The test of the outstanding claims comes after the writes to the stakes and
\* to BALANCE; the Err it returns reverts them.
unstake_error(sender, amount) ==
    IF ~MapHas(STAKED_TOTAL.cur, "total") THEN "NotFound"
    ELSE IF SnapshotLoad(STAKED_TOTAL, "total") = 0 THEN "DivideByZero"
    ELSE IF SnapshotLoad(STAKED_BALANCES, sender) < amount THEN "Overflow"
    ELSE IF SnapshotLoad(STAKED_TOTAL, "total") < amount THEN "Overflow"
    ELSE IF BALANCE < (amount * BALANCE) \div SnapshotLoad(STAKED_TOTAL, "total")
         THEN "Overflow"
    ELSE IF /\ UNSTAKING_DURATION.kind # "None"
            /\ Len(query_claims(CLAIMS, sender)) >= MAX_CLAIMS
         THEN "TooManyClaims"
    ELSE ""

\* unstaking_duration: None sends the tokens back at once; Some(duration)
\* records a claim on them that matures at duration.after(&env.block).
Unstake(sender, amount) ==
    /\ stake_ops < MaxStakeOps
    /\ IF unstake_error(sender, amount) # ""
       THEN Fail("unstake", 0, unstake_error(sender, amount))
       ELSE LET balance         == BALANCE
                staked_total    == SnapshotLoad(STAKED_TOTAL, "total")
                amount_to_claim == (amount * balance) \div staked_total
            IN  /\ STAKED_BALANCES' = SnapshotWrite(STAKED_BALANCES, sender, height,
                                          SnapshotLoad(STAKED_BALANCES, sender) - amount)
                /\ STAKED_TOTAL' = SnapshotWrite(STAKED_TOTAL, "total", height,
                                          staked_total - amount)
                /\ BALANCE' = balance - amount_to_claim
                /\ stake_ops' = stake_ops + 1
                /\ IF UNSTAKING_DURATION.kind = "None"
                   THEN /\ bank' = BankSend(bank, STAKE, sender, amount_to_claim)
                        /\ CLAIMS' = CLAIMS
                   ELSE /\ bank' = bank
                        /\ CLAIMS' = create_claim(CLAIMS, sender, amount_to_claim,
                                                   DurationAfter(UNSTAKING_DURATION, height))
                /\ UNCHANGED UNSTAKING_DURATION
                /\ resp' = Response("unstake", sender, 0, "", <<>>)
                /\ UNCHANGED <<height, daoVars>>

\* execute_claim: the matured claims of the sender are paid out and dropped
Claim(sender) ==
    IF claim_tokens(CLAIMS, sender) = 0
    THEN Fail("claim", 0, "NothingToClaim")
    ELSE /\ CLAIMS' = MapPut(CLAIMS, sender,
                             SelectSeq(query_claims(CLAIMS, sender), Waiting))
         /\ bank' = BankSend(bank, STAKE, sender, claim_tokens(CLAIMS, sender))
         /\ resp' = Response("claim", sender, 0, "", <<>>)
         /\ UNCHANGED <<height, daoVars, BALANCE, STAKED_BALANCES, STAKED_TOTAL,
                        UNSTAKING_DURATION, stake_ops>>

\* execute_fund: tokens added to what the stakers share, no stake is minted
Fund(sender, amount) ==
    /\ amount <= bank[sender]
    /\ BALANCE' = BALANCE + amount
    /\ bank' = BankSend(bank, sender, STAKE, amount)
    /\ resp' = Response("fund", sender, 0, "", <<>>)
    /\ UNCHANGED <<height, daoVars, STAKED_BALANCES, STAKED_TOTAL,
                   UNSTAKING_DURATION, CLAIMS, stake_ops>>

\* ------------------------------------------------------------------ contract.rs handlers
\* The handlers of contract.rs, which work on a Proposal with one expiration
\* (expires_at: the end of the deposit window while Pending, the end of the
\* vote once Open), one deposit, refunded to the proposer, and no deposit
\* records.

\* Proposal::current_status as these handlers use it: a Pending proposal past
\* expires_at is Rejected; an Open one past expires_at is Passed or Rejected by
\* its final tally, and before expires_at Passed as soon as the votes cast
\* pass it whatever the remaining voters do.
legacy_is_passed_early(prop) ==
    /\ VotesTotal(prop.votes) >= votes_needed(prop.total_weight, prop.threshold.quorum)
    /\ ~is_vetoed(prop)
    /\ prop.votes.yes >= votes_needed(prop.total_weight - prop.votes.abstain,
                                      prop.threshold.threshold)

legacy_current_status(prop, h) ==
    CASE prop.status = "Pending" ->
           IF is_expired(prop.expires_at, h) THEN "Rejected" ELSE "Pending"
      [] prop.status = "Open" ->
           IF is_expired(prop.expires_at, h)
           THEN IF is_passed(prop) THEN "Passed" ELSE "Rejected"
           ELSE IF legacy_is_passed_early(prop) THEN "Passed" ELSE "Open"
      [] OTHER -> prop.status

legacy_update_status(prop, h) == [prop EXCEPT !.status = legacy_current_status(prop, h)]

\* IDX_PROPS_BY_STATUS.remove of the loaded status, PROPOSALS.save and
\* IDX_PROPS_BY_STATUS.save of the status of the saved proposal
legacy_save(prop_id, prop) ==
    /\ PROPOSALS' = MapPut(PROPOSALS, prop_id, prop)
    /\ IDX_PROPS_BY_STATUS' =
          (IDX_PROPS_BY_STATUS \ {<<PROPOSALS[prop_id].status, prop_id>>})
             \cup {<<prop.status, prop_id>>}

execute_propose_error(received) ==
    IF check_paused # "" THEN check_paused
    ELSE IF received < CONFIG.proposal_min_deposit THEN "Unauthorized"
    ELSE ""

execute_propose(sender, received, msgs) ==
    /\ received <= bank[sender]
    /\ IF execute_propose_error(received) # ""
       THEN Fail("propose", 0, execute_propose_error(received))
       ELSE LET opens == ~(received < CONFIG.proposal_deposit)
                prop  == legacy_update_status(
                           [proposer          |-> sender,
                            msgs              |-> msgs,
                            status            |-> IF opens THEN "Open" ELSE "Pending",
                            deposit_starts_at |-> height,
                            vote_starts_at    |-> IF opens THEN height ELSE 0,
                            expires_at        |-> duration_to_expiry(height,
                                                    IF opens THEN CONFIG.voting_period
                                                    ELSE CONFIG.deposit_period),
                            votes             |-> VotesDefault,
                            threshold         |-> CONFIG.threshold,
                            total_weight      |-> get_total_staked_supply,
                            deposit           |-> received], height)
                id    == next_id
            IN  /\ PROPOSAL_COUNT' = id
                /\ PROPOSALS' = MapPut(PROPOSALS, id, prop)
                /\ IDX_PROPS_BY_STATUS' = IDX_PROPS_BY_STATUS \cup {<<prop.status, id>>}
                /\ IDX_PROPS_BY_PROPOSER' = IDX_PROPS_BY_PROPOSER \cup {<<sender, id>>}
                /\ bank' = BankSend(bank, sender, DAO, received)
                /\ resp' = Response("propose", sender, id, prop.status, <<>>)
                /\ UNCHANGED <<height, CONFIG, DAO_PAUSED, BALLOTS, DEPOSITS,
                               IDX_DEPOSITS_BY_DEPOSITOR, STAKING_CONTRACT,
                               TREASURY_TOKENS, stakeVars>>

execute_deposit_error(proposal_id) ==
    IF check_paused # "" THEN check_paused
    ELSE IF ~MapHas(PROPOSALS, proposal_id) THEN "NotFound"
    ELSE IF PROPOSALS[proposal_id].status # "Pending" THEN "WrongDepositStatus"
    ELSE ""

\* The index entry of the loaded status is removed first.  On a Pending
\* proposal whose update_status gives Rejected the payment is sent back and the
\* call returns Ok with nothing saved; otherwise the proposal and its index
\* entry are saved.
execute_deposit(sender, proposal_id, received) ==
    /\ received <= bank[sender]
    /\ IF execute_deposit_error(proposal_id) # ""
       THEN Fail("deposit", proposal_id, execute_deposit_error(proposal_id))
       ELSE LET loaded  == PROPOSALS[proposal_id]
                updated == legacy_update_status(loaded, height)
                added   == [updated EXCEPT !.deposit = @ + received]
                prop    == IF CONFIG.proposal_deposit <= added.deposit
                           THEN [added EXCEPT
                                   !.status = "Open",
                                   !.vote_starts_at = height,
                                   !.expires_at = duration_to_expiry(height,
                                                     CONFIG.voting_period)]
                           ELSE added
                refund  == <<BankSendMsg(sender, received)>>
                env     == Dispatch(DispatchEnv(BankSend(bank, sender, DAO, received)),
                                    refund)
            IN  IF updated.status = "Rejected"
                THEN /\ IDX_PROPS_BY_STATUS' =
                          IDX_PROPS_BY_STATUS \ {<<loaded.status, proposal_id>>}
                     /\ bank' = env.bank
                     /\ resp' = Response("deposit", sender, proposal_id, "refund", refund)
                     /\ UNCHANGED <<height, CONFIG, DAO_PAUSED, PROPOSAL_COUNT, PROPOSALS,
                                    IDX_PROPS_BY_PROPOSER, BALLOTS, DEPOSITS,
                                    IDX_DEPOSITS_BY_DEPOSITOR, STAKING_CONTRACT,
                                    TREASURY_TOKENS, stakeVars>>
                ELSE /\ legacy_save(proposal_id, prop)
                     /\ bank' = BankSend(bank, sender, DAO, received)
                     /\ resp' = Response("deposit", sender, proposal_id, "processed", <<>>)
                     /\ UNCHANGED <<height, CONFIG, DAO_PAUSED, PROPOSAL_COUNT,
                                    IDX_PROPS_BY_PROPOSER, BALLOTS, DEPOSITS,
                                    IDX_DEPOSITS_BY_DEPOSITOR, STAKING_CONTRACT,
                                    TREASURY_TOKENS, stakeVars>>

execute_vote_error(sender, proposal_id) ==
    IF check_paused # "" THEN check_paused
    ELSE IF ~MapHas(PROPOSALS, proposal_id) THEN "NotFound"
    ELSE IF PROPOSALS[proposal_id].status # "Open" THEN "NotOpen"
    ELSE IF is_expired(PROPOSALS[proposal_id].expires_at, height) THEN "Expired"
    ELSE IF get_voting_power_at_height(sender, PROPOSALS[proposal_id].vote_starts_at) = 0
         THEN "Unauthorized"
    ELSE ""

execute_vote(sender, proposal_id, vote) ==
    IF execute_vote_error(sender, proposal_id) # ""
    THEN Fail("vote", proposal_id, execute_vote_error(sender, proposal_id))
    ELSE LET loaded     == PROPOSALS[proposal_id]
             vote_power == get_voting_power_at_height(sender, loaded.vote_starts_at)
             key        == <<proposal_id, sender>>
             revoked    == IF MapHas(BALLOTS, key)
                           THEN VotesRevoke(loaded.votes, BALLOTS[key].vote,
                                            BALLOTS[key].weight)
                           ELSE loaded.votes
             prop       == legacy_update_status(
                              [loaded EXCEPT !.votes = VotesSubmit(revoked, vote, vote_power)],
                              height)
         IN  /\ BALLOTS' = MapPut(BALLOTS, key, [weight |-> vote_power, vote |-> vote])
             /\ legacy_save(proposal_id, prop)
             /\ resp' = Response("vote", sender, proposal_id, prop.status, <<>>)
             /\ UNCHANGED <<height, bank, CONFIG, DAO_PAUSED, PROPOSAL_COUNT,
                            IDX_PROPS_BY_PROPOSER, DEPOSITS, IDX_DEPOSITS_BY_DEPOSITOR,
                            STAKING_CONTRACT, TREASURY_TOKENS, stakeVars>>

execute_execute_error(proposal_id) ==
    IF check_paused # "" THEN check_paused
    ELSE IF ~MapHas(PROPOSALS, proposal_id) THEN "NotFound"
    ELSE IF legacy_current_status(PROPOSALS[proposal_id], height) # "Passed"
         THEN "WrongExecuteStatus"
    ELSE ""

execute_execute(proposal_id) ==
    IF execute_execute_error(proposal_id) # ""
    THEN Fail("execute", proposal_id, execute_execute_error(proposal_id))
    ELSE LET loaded == PROPOSALS[proposal_id]
             prop   == [loaded EXCEPT !.status = "Executed"]
             out    == <<BankSendMsg(loaded.proposer, loaded.deposit)>> \o loaded.msgs
             env    == Dispatch(DispatchEnv(bank), out)
         IN  IF ~env.ok
             THEN Fail("execute", proposal_id, env.err)
             ELSE /\ legacy_save(proposal_id, prop)
                  /\ CONFIG' = env.cfg
                  /\ DAO_PAUSED' = env.paused
                  /\ STAKING_CONTRACT' = env.staking
                  /\ TREASURY_TOKENS' = env.tokens
                  /\ bank' = env.bank
                  /\ resp' = Response("execute", "", proposal_id, "", out)
                  /\ UNCHANGED <<height, PROPOSAL_COUNT, IDX_PROPS_BY_PROPOSER, BALLOTS,
                                 DEPOSITS, IDX_DEPOSITS_BY_DEPOSITOR, stakeVars>>

execute_close_error(proposal_id) ==
    IF check_paused # "" THEN check_paused
    ELSE IF ~MapHas(PROPOSALS, proposal_id) THEN "NotFound"
    ELSE IF PROPOSALS[proposal_id].status \in {"Executed", "Rejected", "Passed"}
         THEN "WrongCloseStatus"
    ELSE IF ~is_expired(PROPOSALS[proposal_id].expires_at, height) THEN "NotExpired"
    ELSE ""

execute_close(proposal_id) ==
    IF execute_close_error(proposal_id) # ""
    THEN Fail("close", proposal_id, execute_close_error(proposal_id))
    ELSE LET loaded == PROPOSALS[proposal_id]
             prop   == [loaded EXCEPT !.status = "Rejected"]
             out    == IF ~is_vetoed(prop)
                       THEN <<BankSendMsg(loaded.proposer, loaded.deposit)>> ELSE <<>>
             env    == Dispatch(DispatchEnv(bank), out)
         IN  IF ~env.ok
             THEN Fail("close", proposal_id, env.err)
             ELSE /\ legacy_save(proposal_id, prop)
                  /\ bank' = env.bank
                  /\ resp' = Response("close", "", proposal_id,
                                      IF is_vetoed(prop) THEN "vetoed" ELSE "refunded", out)
                  /\ UNCHANGED <<height, CONFIG, DAO_PAUSED, PROPOSAL_COUNT,
                                 IDX_PROPS_BY_PROPOSER, BALLOTS, DEPOSITS,
                                 IDX_DEPOSITS_BY_DEPOSITOR, STAKING_CONTRACT,
                                 TREASURY_TOKENS, stakeVars>>

\* ------------------------------------------------------------------ chain

AdvanceBlock ==
    /\ height < MaxHeight
    /\ height' = height + 1
    /\ resp' = Response("begin_block", "", 0, "", <<>>)
    /\ UNCHANGED <<bank, daoVars, stakeVars>>

\* ------------------------------------------------------------------ specification

\* What the users staked in the genesis block (height 0), before the first
\* proposal: execute_stake at height 0 by each of them.
SoleStaker == [u \in Users |-> IF u = "u1" THEN 3 ELSE 0]

TwoStakers == [u \in Users |-> IF u = "u1" THEN 3 ELSE 2]

GenesisSnapshot(cur) ==
    [cur |-> cur, log |-> [e \in {<<k, 0>> : k \in DOMAIN cur} |-> 0]]

\* "" for Ok: instantiate runs msg.threshold.validate() before it stores anything
instantiate_error(msg) == ThresholdValidate(msg.threshold)

\* The dao instantiated with `cfg`, its staking contract instantiated by the
\* reply, the genesis stakes `g` made, one block later.
InitContracts(g, funds, cfg, duration) ==
    /\ instantiate_error(cfg) = ""
    /\ height = 1
    /\ bank = [a \in Users \cup {DAO, STAKE} |->
                 IF a \in Users THEN funds
                 ELSE IF a = STAKE THEN SumOver(g, Users) ELSE 0]
    /\ CONFIG = cfg
    /\ DAO_PAUSED = NotPaused
    /\ STAKING_CONTRACT = STAKE
    /\ TREASURY_TOKENS = {GovDenom}
    /\ PROPOSAL_COUNT = 0
    /\ PROPOSALS = EmptyMap
    /\ IDX_PROPS_BY_STATUS = {}
    /\ IDX_PROPS_BY_PROPOSER = {}
    /\ BALLOTS = EmptyMap
    /\ DEPOSITS = EmptyMap
    /\ IDX_DEPOSITS_BY_DEPOSITOR = {}
    /\ BALANCE = SumOver(g, Users)
    /\ STAKED_BALANCES = GenesisSnapshot([u \in {v \in Users : g[v] > 0} |-> g[u]])
    /\ STAKED_TOTAL = GenesisSnapshot([k \in {"total"} |-> SumOver(g, Users)])
    /\ UNSTAKING_DURATION = duration
    /\ CLAIMS = EmptyMap
    /\ resp = Response("instantiate", "", 0, "", <<>>)

\* The staking contract pays unstaked tokens back at once.
InitWithConfig(g, funds, cfg) ==
    /\ InitContracts(g, funds, cfg, NoDuration)
    /\ stake_ops = 0

InitWith(g, funds) == InitWithConfig(g, funds, InitConfig)

ProposalIds == 1..MaxProposals

\* A rejected call changes nothing, so the run continues from the state before
\* it: the state that records a rejection is a leaf.

\* One proposal at a time, two stakers: the life of a proposal.
Init == InitWith(TwoStakers, InitFunds)

Next ==
    /\ resp.err = ""
    /\ \/ AdvanceBlock
       \/ \E u \in Users, a \in 0..InitFunds, m \in MsgBatches :
             PROPOSAL_COUNT < MaxStakeProposals /\ Propose(u, a, m)
       \/ \E u \in Users, id \in 1..MaxStakeProposals, a \in 0..InitFunds :
             Deposit(u, id, a)
       \/ \E u \in Users, id \in 1..MaxStakeProposals, v \in VoteOptions : Vote(u, id, v)
       \/ \E id \in 1..MaxStakeProposals : Execute(id)
       \/ \E id \in 1..MaxStakeProposals : Close(id)
       \/ \E u \in Users, id \in 1..MaxStakeProposals : ClaimDeposit(u, id)

Spec == Init /\ [][Next]_vars

\* The same, with stakers who keep staking and unstaking.
NextStake ==
    /\ resp.err = ""
    /\ \/ AdvanceBlock
       \/ \E u \in Users, a \in 1..TightFunds : Stake(u, a)
       \/ \E u \in Users, a \in 1..TightFunds : Unstake(u, a)
       \/ \E u \in Users, a \in 0..TightFunds :
             PROPOSAL_COUNT < MaxStakeProposals /\ Propose(u, a, <<>>)
       \/ \E u \in Users, id \in 1..MaxStakeProposals, a \in 0..TightFunds :
             Deposit(u, id, a)
       \/ \E u \in Users, id \in 1..MaxStakeProposals, v \in {"Yes", "No"} : Vote(u, id, v)
       \/ \E id \in 1..MaxStakeProposals : Execute(id)
       \/ \E id \in 1..MaxStakeProposals : Close(id)
       \/ \E u \in Users, id \in 1..MaxStakeProposals : ClaimDeposit(u, id)

InitStake == InitWith(TwoStakers, TightFunds)

SpecStake == InitStake /\ [][NextStake]_vars

\* Several proposals of one proposer, funded by the other user and decided by
\* the sole staker: proposals that reconfigure and pause the dao while others
\* are in flight.
InitGov == InitWith(SoleStaker, TightFunds)

NextGov ==
    /\ resp.err = ""
    /\ \/ AdvanceBlock
       \/ \E a \in 0..TightFunds, m \in MsgBatches :
             PROPOSAL_COUNT < MaxProposals /\ Propose("u1", a, m)
       \/ \E id \in ProposalIds, a \in 0..TightFunds : Deposit("u2", id, a)
       \/ \E id \in ProposalIds, v \in {"Yes", "No"} : Vote("u1", id, v)
       \/ \E id \in ProposalIds : Execute(id)
       \/ \E id \in ProposalIds : Close(id)

SpecGov == InitGov /\ [][NextGov]_vars

\* The deposits of several proposals in one dao: both users propose, deposit and
\* claim, the sole staker decides, and no proposal carries a message, so that
\* the dao receives and pays deposits only.
InitRefund == InitWith(SoleStaker, TightFunds)

NextRefund ==
    /\ resp.err = ""
    /\ \/ AdvanceBlock
       \/ \E u \in Users, a \in 1..TightFunds :
             PROPOSAL_COUNT < MaxProposals /\ Propose(u, a, <<>>)
       \/ \E u \in Users, id \in ProposalIds, a \in 1..TightFunds : Deposit(u, id, a)
       \/ \E id \in ProposalIds : Vote("u1", id, "Yes")
       \/ \E id \in ProposalIds : Execute(id)
       \/ \E id \in ProposalIds : Close(id)
       \/ \E u \in Users, id \in ProposalIds : ClaimDeposit(u, id)

SpecRefund == InitRefund /\ [][NextRefund]_vars

\* The dao driven through the handlers of contract.rs.
InitLegacy == InitWith(TwoStakers, TightFunds)

NextLegacy ==
    /\ resp.err = ""
    /\ \/ AdvanceBlock
       \/ \E u \in Users, a \in 0..TightFunds :
             PROPOSAL_COUNT < MaxStakeProposals /\ execute_propose(u, a, <<>>)
       \/ \E u \in Users, id \in 1..MaxStakeProposals, a \in 0..1 : execute_deposit(u, id, a)
       \/ \E u \in Users, id \in 1..MaxStakeProposals, v \in {"Yes", "No", "Veto"} :
             execute_vote(u, id, v)
       \/ \E id \in 1..MaxStakeProposals : execute_execute(id)
       \/ \E id \in 1..MaxStakeProposals : execute_close(id)

SpecLegacy == InitLegacy /\ [][NextLegacy]_vars

\* The staking contract on its own: stakers who stake, unstake, fund and claim
\* over several blocks, with and without an unstaking duration.  The counter of
\* staking calls starts SnapshotOps calls short of MaxStakeOps.
UnstakingDurations == {NoDuration, DurationHeight(1)}

InitSnapshot ==
    /\ \E duration \in UnstakingDurations :
          InitContracts(TwoStakers, TightFunds, InitConfig, duration)
    /\ stake_ops = MaxStakeOps - SnapshotOps

NextSnapshot ==
    /\ resp.err = ""
    /\ \/ AdvanceBlock
       \/ \E u \in Users, a \in 1..TightFunds : Stake(u, a)
       \/ \E u \in Users, a \in 1..TightFunds : Unstake(u, a)
       \/ Fund("u1", 1)
       \/ \E u \in Users : Claim(u)

SpecSnapshot == InitSnapshot /\ [][NextSnapshot]_vars

\* Claims: a staking contract with an unstaking duration of one block, in
\* which each user has staked one token more than an address may hold claims
\* and unstakes them one by one.
ClaimStakers == [u \in Users |-> MAX_CLAIMS + 1]

InitClaims ==
    /\ InitContracts(ClaimStakers, TightFunds, InitConfig, DurationHeight(1))
    /\ stake_ops = MaxStakeOps - (MAX_CLAIMS + 1)

NextClaims ==
    /\ resp.err = ""
    /\ \/ AdvanceBlock
       \/ \E u \in Users : Unstake(u, 1)
       \/ \E u \in Users : Claim(u)

SpecClaims == InitClaims /\ [][NextClaims]_vars

\* Pauses: proposals that pause the dao until a block, pause it with
\* Expiration::Never, or set an expiration that has already been reached (which
\* lifts a pause), beside plain proposals, and users who call PauseDAO
\* themselves.
PauseBatches ==
    { <<>>,
      <<PauseDAOMsg(AtHeight(MaxHeight))>>,
      <<PauseDAOMsg(Never)>>,
      <<PauseDAOMsg(AtHeight(1))>> }

InitPause == InitWith(SoleStaker, TightFunds)

NextPause ==
    /\ resp.err = ""
    /\ \/ AdvanceBlock
       \/ \E a \in 1..TightFunds, m \in PauseBatches :
             PROPOSAL_COUNT < MaxProposals /\ Propose("u1", a, m)
       \/ \E id \in ProposalIds : Deposit("u2", id, 1)
       \/ \E id \in ProposalIds : Vote("u1", id, "Yes")
       \/ \E id \in ProposalIds : Execute(id)
       \/ \E id \in ProposalIds : Close(id)
       \/ \E u \in Users, id \in ProposalIds : ClaimDeposit(u, id)
       \/ \E u \in Users : PauseDAO(u, AtHeight(1))

SpecPause == InitPause /\ [][NextPause]_vars

\* The administration of the dao: a first proposal that carries one of the four
\* admin messages, valid or invalid, plain proposals in flight beside it, and
\* users who call the admin handlers themselves.
InstantiateConfigs == {InitConfig, ZeroQuorumConfig, UnreachableVetoConfig}

InitAdmin == \E cfg \in InstantiateConfigs : InitWithConfig(SoleStaker, InitFunds, cfg)

NextAdmin ==
    /\ resp.err = ""
    /\ \/ AdvanceBlock
       \/ \E a \in 1..TightFunds, m \in AdminBatches :
             PROPOSAL_COUNT = 0 /\ Propose("u1", a, m)
       \/ \E a \in 1..TightFunds :
             PROPOSAL_COUNT \in 1..(MaxProposals - 1) /\ Propose("u1", a, <<>>)
       \/ \E id \in ProposalIds : Deposit("u2", id, 1)
       \/ \E id \in ProposalIds, v \in {"Yes", "No"} : Vote("u1", id, v)
       \/ \E id \in ProposalIds : Execute(id)
       \/ \E id \in ProposalIds : Close(id)
       \/ \E u \in Users : UpdateConfig(u, StrictConfig)
       \/ \E u \in Users : PauseDAO(u, AtHeight(MaxHeight))
       \/ \E u \in Users : UpdateStakingContract(u, NEW_STAKE)
       \/ \E u \in Users : UpdateTokenList(u, <<Cw20Denom>>, <<GovDenom>>)

SpecAdmin == InitAdmin /\ [][NextAdmin]_vars

\* The tally: one proposal, decided by electorates and under thresholds of
\* several kinds, among them an electorate in which nobody has staked and a
\* threshold one atomic unit of the Decimal above one half.
EvenStakers == [u \in Users |-> 1]

NoStakers == [u \in Users |-> 0]

Electorates == {TwoStakers, EvenStakers, NoStakers}

\* Decimal::from_atomics(500_000_000_000_000_001, 18)
JustAboveHalf == <<1, 0, 0, 0, 0, 500, 0>>

MajorityThreshold ==
    [threshold      |-> JustAboveHalf,
     quorum         |-> JustAboveHalf,
     veto_threshold |-> DecimalPermille(334)]

Thresholds == {InitConfig.threshold, MajorityThreshold}

InitTally ==
    \E g \in Electorates, t \in Thresholds :
        InitWithConfig(g, TightFunds, [InitConfig EXCEPT !.threshold = t])

NextTally ==
    /\ resp.err = ""
    /\ \/ AdvanceBlock
       \/ \E u \in Users, a \in 1..TightFunds :
             PROPOSAL_COUNT < MaxStakeProposals /\ Propose(u, a, <<>>)
       \/ \E u \in Users, id \in 1..MaxStakeProposals : Deposit(u, id, 1)
       \/ \E u \in Users, id \in 1..MaxStakeProposals, v \in VoteOptions : Vote(u, id, v)
       \/ \E id \in 1..MaxStakeProposals : Execute(id)
       \/ \E id \in 1..MaxStakeProposals : Close(id)

SpecTally == InitTally /\ [][NextTally]_vars

\* ------------------------------------------------------------------ properties

Statuses == {"Pending", "Open", "Rejected", "Passed", "Executed"}

\* the buckets of the by-status index that hold prop_id
BucketsOf(prop_id) == {s \in Statuses : <<s, prop_id>> \in IDX_PROPS_BY_STATUS}

\* C1: every stored proposal id is in exactly one bucket of IDX_PROPS_BY_STATUS,
\* the bucket of the status stored in PROPOSALS, and the index holds nothing else.
C1_IndexConsistent ==
    /\ \A id \in DOMAIN PROPOSALS : BucketsOf(id) = {PROPOSALS[id].status}
    /\ \A e \in IDX_PROPS_BY_STATUS : e[1] \in Statuses /\ e[2] \in DOMAIN PROPOSALS

\* one proposal opened by a Deposit and executed, another closed
C1_Witness ==
    /\ DOMAIN PROPOSALS = {1, 2}
    /\ PROPOSALS[1].status = "Executed"
    /\ PROPOSALS[1].vote_starts_at > PROPOSALS[1].submitted_at
    /\ PROPOSALS[2].status = "Rejected"

\* the tally bucket of an option
Bucket(v, option) ==
    CASE option = "Yes"     -> v.yes
      [] option = "No"      -> v.no
      [] option = "Abstain" -> v.abstain
      [] option = "Veto"    -> v.veto

\* the weights of the stored ballots of prop_id that carry `option`
BallotWeight(prop_id, option) ==
    LET carried == [u \in Users |->
                      IF /\ MapHas(BALLOTS, <<prop_id, u>>)
                         /\ BALLOTS[<<prop_id, u>>].vote = option
                      THEN BALLOTS[<<prop_id, u>>].weight ELSE 0]
    IN  SumOver(carried, Users)

\* C2: each tally bucket of every proposal is the sum of the weights of the
\* stored ballots carrying that option, so votes.total() is the sum of all stored
\* ballot weights; no bucket is negative and no revoke underflows (checked_sub).
C2_TallyMatchesBallots ==
    /\ \A id \in DOMAIN PROPOSALS :
          /\ \A o \in VoteOptions :
                /\ Bucket(PROPOSALS[id].votes, o) = BallotWeight(id, o)
                /\ Bucket(PROPOSALS[id].votes, o) >= 0
          /\ VotesTotal(PROPOSALS[id].votes)
                = SumOver([o \in VoteOptions |-> BallotWeight(id, o)], VoteOptions)
    /\ \A k \in DOMAIN BALLOTS : k[1] \in DOMAIN PROPOSALS
    /\ resp.err # "Panic"

\* both stakers have a ballot on the proposal, with different options, and the
\* last call was a Vote that replaced a ballot of another option
C2_Witness ==
    /\ resp.action = "vote" /\ resp.err = ""
    /\ resp.replaced \notin {"", resp.result}
    /\ \A u \in Users : MapHas(BALLOTS, <<resp.id, u>>)
    /\ BALLOTS[<<resp.id, "u1">>].vote # BALLOTS[<<resp.id, "u2">>].vote

\* a successful Vote of a voter who has a ballot on the proposal already
RevoteStep ==
    /\ resp'.action = "vote" /\ resp'.err = ""
    /\ MapHas(BALLOTS, <<resp'.id, resp'.sender>>)

\* C3: a Vote by a voter who already has a ballot leaves votes.total() unchanged,
\* moves the voter's (unchanged) weight from the bucket of the old option to the
\* bucket of the new one, and leaves one ballot for the voter; with the same
\* option the whole tally is unchanged.
C3_RevoteMovesWeight ==
    [][RevoteStep =>
         LET id    == resp'.id
             key   == <<resp'.id, resp'.sender>>
             old   == BALLOTS[key]
             new   == BALLOTS'[key]
             votes == PROPOSALS[id].votes
         IN  /\ VotesTotal(PROPOSALS'[id].votes) = VotesTotal(votes)
             /\ DOMAIN BALLOTS' = DOMAIN BALLOTS
             /\ new.weight = old.weight
             /\ new.vote = resp'.result
             /\ \A o \in VoteOptions :
                   Bucket(PROPOSALS'[id].votes, o)
                     = Bucket(votes, o) - (IF o = old.vote THEN old.weight ELSE 0)
                                        + (IF o = new.vote THEN old.weight ELSE 0)
             /\ (new.vote = old.vote => PROPOSALS'[id].votes = votes)
             /\ \A k \in DOMAIN BALLOTS \ {key} : BALLOTS'[k] = BALLOTS[k]]_vars

\* a voter changed the option after a Stake or Unstake call went through
C3_Witness ==
    /\ resp.action = "vote" /\ resp.err = ""
    /\ resp.replaced \notin {"", resp.result}
    /\ stake_ops > 0

\* a voter voted the same option again
C3_WitnessSameOption ==
    /\ resp.action = "vote" /\ resp.err = ""
    /\ resp.replaced = resp.result

\* a successful Vote
VoteStep == resp'.action = "vote" /\ resp'.err = ""

\* C4: the weight a Vote records is the voter's staked balance at the height in
\* the proposal's vote_starts_at, and no Stake or Unstake call changes what the
\* stake contract answers for that height while the proposal is stored.
C4_WeightAtVoteStart ==
    [][/\ VoteStep =>
            BALLOTS'[<<resp'.id, resp'.sender>>].weight
              = SnapshotLoadAtHeight(STAKED_BALANCES, resp'.sender,
                                     PROPOSALS[resp'.id].vote_starts_at)
       /\ resp'.action \in {"stake", "unstake"} =>
            \A id \in DOMAIN PROPOSALS, u \in Users :
                PROPOSALS[id].status = "Open" =>
                    SnapshotLoadAtHeight(STAKED_BALANCES', u, PROPOSALS[id].vote_starts_at)
                      = SnapshotLoadAtHeight(STAKED_BALANCES, u,
                                             PROPOSALS[id].vote_starts_at)]_vars

\* the voter of the last Vote staked or unstaked in a block after voting
\* opened, and the ballot carries a weight that is not the present stake
C4_Witness ==
    /\ resp.action = "vote" /\ resp.err = ""
    /\ BALLOTS[<<resp.id, resp.sender>>].weight
          # SnapshotLoad(STAKED_BALANCES, resp.sender)
    /\ \E e \in DOMAIN STAKED_BALANCES.log :
          e[1] = resp.sender /\ e[2] > PROPOSALS[resp.id].vote_starts_at

C5_WitnessNotPassed ==
    /\ resp.action = "execute" /\ resp.err = "InvalidProposalStatus"
    /\ height >= PROPOSALS[resp.id].vote_ends_at
    /\ PROPOSALS[resp.id].status = "Open"

\* a successful Close
CloseStep == resp'.action = "close" /\ resp'.err = ""

\* a proposal rejected with its deposits confiscated
Confiscated(prop) == prop.status = "Rejected" /\ ~prop.deposit_claimable

\* C6: a Close of a proposal stored as Pending succeeds only at or after
\* deposit_ends_at with total_deposit below deposit_base_amount; it stores
\* Rejected, returns no message, moves no token and leaves deposit_claimable
\* false. A rejected proposal whose deposits are not claimable stays as it is,
\* and every ClaimDeposit on it fails and pays nothing.
C6_ClosePendingConfiscates ==
    [][/\ (CloseStep /\ PROPOSALS[resp'.id].status = "Pending") =>
            LET id == resp'.id
            IN  /\ height >= PROPOSALS[id].deposit_ends_at
                /\ PROPOSALS[id].total_deposit < PROPOSALS[id].deposit_base_amount
                /\ PROPOSALS'[id].status = "Rejected"
                /\ ~PROPOSALS'[id].deposit_claimable
                /\ resp'.result = "confiscate"
                /\ resp'.messages = <<>>
                /\ bank' = bank
       /\ \A id \in DOMAIN PROPOSALS :
            Confiscated(PROPOSALS[id]) => PROPOSALS'[id] = PROPOSALS[id]
       /\ (/\ resp'.action = "claim_deposit"
           /\ MapHas(PROPOSALS, resp'.id)
           /\ ~PROPOSALS[resp'.id].deposit_claimable) =>
            (resp'.err # "" /\ bank' = bank /\ DEPOSITS' = DEPOSITS)]_vars

\* a proposal that never opened was closed, the dao holds its deposits, and a
\* ClaimDeposit on it has just been turned down
C6_Witness ==
    /\ resp.action = "claim_deposit" /\ resp.err = "DepositNotClaimable"
    /\ PROPOSALS[resp.id].status = "Rejected"
    /\ PROPOSALS[resp.id].vote_starts_at = 0
    /\ bank[DAO] >= PROPOSALS[resp.id].total_deposit
    /\ PROPOSALS[resp.id].total_deposit > 0

\* what u has deposited on prop_id and not claimed
Unclaimed(prop_id, u) ==
    IF MapHas(DEPOSITS, <<prop_id, u>>) /\ ~DEPOSITS[<<prop_id, u>>].claimed
    THEN DEPOSITS[<<prop_id, u>>].amount ELSE 0

\* C7: a Close that reports "refund" pays every depositor of the proposal back
\* within the call: after it each depositor holds what they held before it
\* plus their deposit.
C7_CloseRefundsDeposits ==
    [][(CloseStep /\ resp'.result = "refund") =>
         \A u \in Users : bank'[u] = bank[u] + Unclaimed(resp'.id, u)]_vars

\* What close does on "refund": it marks the deposits claimable and sends
\* nothing; a depositor is paid by a ClaimDeposit of their own.
CloseOnlyMarksClaimable ==
    [][(CloseStep /\ resp'.result = "refund") =>
         /\ bank' = bank
         /\ resp'.messages = <<>>
         /\ PROPOSALS'[resp'.id].deposit_claimable]_vars

\* a Close reported "refund" while a depositor's tokens stayed with the dao
C7_Witness ==
    /\ resp.action = "close" /\ resp.err = "" /\ resp.result = "refund"
    /\ \E u \in Users : Unclaimed(resp.id, u) > 0
    /\ bank[DAO] > 0

\* the veto bucket of a proposal whose voting ended holds at least
\* votes_needed(total_weight, veto_threshold)
VetoedAtEnd(prop) ==
    /\ prop.vote_starts_at > 0
    /\ height >= prop.vote_ends_at
    /\ prop.votes.veto >= votes_needed(prop.total_weight, prop.threshold.veto_threshold)

\* C8: a proposal whose veto bucket at the end of voting holds at least
\* votes_needed(total_weight, veto_threshold) is derived as Rejected whatever
\* its other buckets hold, its deposits are never claimable, it is never
\* executed, and a Close of it reports "confiscate".
C8_VetoConfiscates ==
    /\ \A id \in DOMAIN PROPOSALS :
          VetoedAtEnd(PROPOSALS[id]) =>
              /\ current_status(PROPOSALS[id], height) = "Rejected"
              /\ PROPOSALS[id].status \in {"Open", "Rejected"}
              /\ ~PROPOSALS[id].deposit_claimable
    /\ (/\ resp.action = "close" /\ resp.err = ""
        /\ VetoedAtEnd(PROPOSALS[resp.id])) => resp.result = "confiscate"
    /\ (/\ resp.action \in {"execute", "claim_deposit"}
        /\ MapHas(PROPOSALS, resp.id)
        /\ VetoedAtEnd(PROPOSALS[resp.id])) => resp.err # ""

\* a proposal was closed whose yes votes meet quorum and threshold and outweigh
\* the veto votes that reject it
C8_Witness ==
    /\ resp.action = "close" /\ resp.err = "" /\ resp.result = "confiscate"
    /\ VetoedAtEnd(PROPOSALS[resp.id])
    /\ PROPOSALS[resp.id].status = "Rejected"
    /\ LET prop == PROPOSALS[resp.id]
       IN  /\ prop.votes.yes > prop.votes.veto
           /\ VotesTotal(prop.votes)
                 >= votes_needed(prop.total_weight, prop.threshold.quorum)
           /\ prop.votes.yes
                 >= votes_needed(VotesTotal(prop.votes) - prop.votes.abstain,
                                 prop.threshold.threshold)

\* C9: after a Deposit or a Propose that leaves the proposal Open, the
\* proposal's total_deposit is the required amount: the refunded excess is not
\* part of it.
C9_TotalDepositIsRequired ==
    (/\ resp.action \in {"deposit", "propose"} /\ resp.err = ""
     /\ PROPOSALS[resp.id].status = "Open") =>
        PROPOSALS[resp.id].total_deposit = PROPOSALS[resp.id].deposit_base_amount

\* a Deposit opened the proposal and sent the excess back, and total_deposit
\* holds the excess all the same
C9_Witness ==
    /\ resp.action = "deposit" /\ resp.err = "" /\ resp.result = "open"
    /\ resp.messages # <<>>
    /\ PROPOSALS[resp.id].total_deposit
          = PROPOSALS[resp.id].deposit_base_amount + resp.messages[1].amount

\* What deposit and propose do: the proposal opens when the payments reach the
\* configured proposal_deposit, the payer gets the excess back, and
\* total_deposit keeps the sum of everything paid in.
OpeningKeepsGrossDeposit ==
    (/\ resp.action \in {"deposit", "propose"} /\ resp.err = ""
     /\ PROPOSALS[resp.id].status = "Open") =>
        LET prop == PROPOSALS[resp.id]
            gap  == prop.total_deposit - CONFIG.proposal_deposit
        IN  /\ gap >= 0
            /\ resp.messages = IF gap > 0 THEN <<BankSendMsg(resp.sender, gap)>> ELSE <<>>
            /\ prop.total_deposit
                  = SumOver([u \in Users |->
                               IF MapHas(DEPOSITS, <<resp.id, u>>)
                               THEN DEPOSITS[<<resp.id, u>>].amount ELSE 0], Users)

\* C10: the stored status and the derived status agree on the deposit
\* requirement: a proposal stored as Pending holds less than its own
\* deposit_base_amount, and one that was opened holds at least that much,
\* whatever UpdateConfig did to proposal_deposit since its submission.
C10_OpensAtOwnBaseAmount ==
    \A id \in DOMAIN PROPOSALS :
        /\ PROPOSALS[id].status = "Pending" =>
              PROPOSALS[id].total_deposit < PROPOSALS[id].deposit_base_amount
        /\ PROPOSALS[id].vote_starts_at > 0 =>
              PROPOSALS[id].total_deposit >= PROPOSALS[id].deposit_base_amount

\* a Deposit brought a proposal to its own deposit_base_amount and left it
\* Pending, because proposal_deposit was raised after its submission
C10_Witness ==
    /\ resp.action = "deposit" /\ resp.err = "" /\ resp.result = "pending"
    /\ PROPOSALS[resp.id].status = "Pending"
    /\ PROPOSALS[resp.id].total_deposit >= PROPOSALS[resp.id].deposit_base_amount
    /\ CONFIG.proposal_deposit > PROPOSALS[resp.id].deposit_base_amount
    /\ current_status(PROPOSALS[resp.id], height) = "Open"

\* a Deposit that moved a proposal from Pending to Open
OpeningStep == resp'.action = "deposit" /\ resp'.err = "" /\ resp'.result = "open"

\* C11: total_weight and threshold of a proposal are captured when it goes from
\* Pending to Open: after the Deposit that opens it, total_weight is the total
\* staked supply the staking contract reports at that moment and threshold is
\* the threshold of the configuration at that moment.
C11_CapturedAtActivation ==
    [][OpeningStep =>
         /\ PROPOSALS'[resp'.id].total_weight = get_total_staked_supply
         /\ PROPOSALS'[resp'.id].threshold = CONFIG.threshold]_vars

\* a proposal was opened by a Deposit in a block whose total staked supply is
\* not the one of the block it was submitted in
C11_Witness ==
    /\ resp.action = "deposit" /\ resp.err = "" /\ resp.result = "open"
    /\ PROPOSALS[resp.id].vote_starts_at = height
    /\ PROPOSALS[resp.id].submitted_at < height
    /\ PROPOSALS[resp.id].total_weight =
          query_total_staked_at_height(PROPOSALS[resp.id].submitted_at)
    /\ PROPOSALS[resp.id].total_weight # get_total_staked_supply

\* C12: once a proposal has left Pending, its threshold, total_weight,
\* vote_starts_at and vote_ends_at are the same after every operation
\* (UpdateConfig, UpdateStakingContract, Vote, Execute, Close and every other
\* call), and the proposal stays stored.
C12_OpenedFieldsFrozen ==
    [][\A id \in DOMAIN PROPOSALS :
          PROPOSALS[id].status # "Pending" =>
            /\ id \in DOMAIN PROPOSALS'
            /\ PROPOSALS'[id].threshold = PROPOSALS[id].threshold
            /\ PROPOSALS'[id].total_weight = PROPOSALS[id].total_weight
            /\ PROPOSALS'[id].vote_starts_at = PROPOSALS[id].vote_starts_at
            /\ PROPOSALS'[id].vote_ends_at = PROPOSALS[id].vote_ends_at]_vars

\* an Execute has just replaced the configuration or the staking contract
\* while another proposal is Open with the threshold and the weight it had
C12_Witness ==
    /\ resp.action = "execute" /\ resp.err = ""
    /\ \E id \in DOMAIN PROPOSALS :
          /\ id # resp.id
          /\ PROPOSALS[id].status = "Open"
          /\ PROPOSALS[id].total_weight > 0
          /\ \/ PROPOSALS[id].threshold # CONFIG.threshold
             \/ get_total_staked_supply # PROPOSALS[id].total_weight

\* an Open proposal whose voting period is over
OpenAndExpired(prop) == prop.status = "Open" /\ height >= prop.vote_ends_at

\* C13: at or after vote_ends_at the derived status of an Open proposal is
\* Passed exactly when the votes cast reach votes_needed(total_weight, quorum),
\* yes reaches votes_needed(total - abstain, threshold) and veto is below
\* votes_needed(total_weight, veto_threshold); otherwise it is Rejected.
C13_FinalTallyRule ==
    \A id \in DOMAIN PROPOSALS :
        LET prop  == PROPOSALS[id]
            v     == prop.votes
            total == v.yes + v.no + v.abstain + v.veto
            pass  == /\ total >= votes_needed(prop.total_weight, prop.threshold.quorum)
                     /\ v.yes >= votes_needed(total - v.abstain, prop.threshold.threshold)
                     /\ v.veto < votes_needed(prop.total_weight,
                                              prop.threshold.veto_threshold)
        IN  OpenAndExpired(prop) =>
              current_status(prop, height) = IF pass THEN "Passed" ELSE "Rejected"

\* a proposal passes at the end with abstentions that would sink it if they
\* counted as opinions
C13_Witness ==
    \E id \in DOMAIN PROPOSALS :
        /\ OpenAndExpired(PROPOSALS[id])
        /\ current_status(PROPOSALS[id], height) = "Passed"
        /\ PROPOSALS[id].votes.abstain > 0
        /\ PROPOSALS[id].votes.yes <
              votes_needed(VotesTotal(PROPOSALS[id].votes), PROPOSALS[id].threshold.threshold)

\* a proposal is rejected at the end by the veto alone
C13_WitnessVetoed ==
    \E id \in DOMAIN PROPOSALS :
        /\ OpenAndExpired(PROPOSALS[id])
        /\ current_status(PROPOSALS[id], height) = "Rejected"
        /\ PROPOSALS[id].votes.yes > PROPOSALS[id].votes.veto
        /\ PROPOSALS[id].votes.no = 0
        /\ is_vetoed(PROPOSALS[id])

\* the ceiling of percentage * weight, from the exact product of the atomics
CeilOfProduct(weight, percentage) ==
    LET product == MulLimbs(percentage, weight, 0)
    IN  LimbsToInt(DropLimbs(product, 6)) + (IF LowLimbsZero(product, 6) THEN 0 ELSE 1)

FractionsOf(prop) ==
    {prop.threshold.threshold, prop.threshold.quorum, prop.threshold.veto_threshold}

\* C14: votes_needed(weight, fraction) is the ceiling of fraction * weight, for
\* every fraction a proposal carries and every weight up to its total_weight:
\* never less, and the product itself when that is an integer.
C14_VotesNeededIsCeiling ==
    \A id \in DOMAIN PROPOSALS :
        \A weight \in 0..PROPOSALS[id].total_weight, f \in FractionsOf(PROPOSALS[id]) :
            votes_needed(weight, f) = CeilOfProduct(weight, f)

\* a proposal was executed on one yes against one no, under a threshold above
\* one half whose votes_needed is below the ceiling
C14_Witness ==
    /\ resp.action = "execute" /\ resp.err = ""
    /\ PROPOSALS[resp.id].votes = [yes |-> 1, no |-> 1, abstain |-> 0, veto |-> 0]
    /\ votes_needed(2, PROPOSALS[resp.id].threshold.threshold) = 1
    /\ CeilOfProduct(2, PROPOSALS[resp.id].threshold.threshold) = 2

\* on the fractions of the tests votes_needed is the ceiling
VotesNeededOnPermilles ==
    \A weight \in 0..48, x \in {250, 333, 334, 500, 1000} :
        votes_needed(weight, DecimalPermille(x)) = CeilOfProduct(weight, DecimalPermille(x))

\* C15: before vote_ends_at the derived status of an Open proposal is Open
\* whatever its tally, and a proposal whose voting period has begun and is not
\* over is stored as Open: neither Passed nor Rejected nor Executed is
\* reported or committed before the voting period closes.
C15_NoOutcomeBeforeEnd ==
    \A id \in DOMAIN PROPOSALS :
        LET prop == PROPOSALS[id]
        IN  /\ (prop.status = "Open" /\ height < prop.vote_ends_at) =>
                  current_status(prop, height) = "Open"
            /\ (prop.vote_starts_at > 0 /\ height < prop.vote_ends_at) =>
                  prop.status = "Open"

\* every staker has voted Yes and the voting period is not over
C15_Witness ==
    \E id \in DOMAIN PROPOSALS :
        /\ PROPOSALS[id].status = "Open"
        /\ height < PROPOSALS[id].vote_ends_at
        /\ PROPOSALS[id].votes.yes = PROPOSALS[id].total_weight
        /\ is_passed(PROPOSALS[id])

\* every staker has voted Veto and the voting period is not over
C15_WitnessVetoed ==
    \E id \in DOMAIN PROPOSALS :
        /\ PROPOSALS[id].status = "Open"
        /\ height < PROPOSALS[id].vote_ends_at
        /\ PROPOSALS[id].votes.veto = PROPOSALS[id].total_weight
        /\ is_vetoed(PROPOSALS[id])

Terminal(prop) == prop.status \in {"Executed", "Rejected"}

\* C16: a stored proposal stays stored; once its stored status is Executed or
\* Rejected no call changes that status; an Execute of such a proposal fails
\* (so Execute succeeds at most once per proposal) and, on an un-paused dao, a
\* Close of such a proposal fails with InvalidProposalStatus.
C16_TerminalStatuses ==
    [][\A id \in DOMAIN PROPOSALS :
          /\ id \in DOMAIN PROPOSALS'
          /\ Terminal(PROPOSALS[id]) =>
                /\ PROPOSALS'[id].status = PROPOSALS[id].status
                /\ (resp'.action = "execute" /\ resp'.id = id) => resp'.err # ""
                /\ (resp'.action = "close" /\ resp'.id = id /\ check_paused = "") =>
                      resp'.err = "InvalidProposalStatus"]_vars

\* a Close of an Executed proposal was turned down
C16_Witness ==
    /\ resp.action = "close" /\ resp.err = "InvalidProposalStatus"
    /\ PROPOSALS[resp.id].status = "Executed"

\* a Close of a Rejected proposal was turned down
C16_WitnessRejected ==
    /\ resp.action = "close" /\ resp.err = "InvalidProposalStatus"
    /\ PROPOSALS[resp.id].status = "Rejected"

\* a second Execute of a proposal was turned down
C16_WitnessExecutedTwice ==
    /\ resp.action = "execute" /\ resp.err = "InvalidProposalStatus"
    /\ PROPOSALS[resp.id].status = "Executed"

ProposeDone == resp'.action = "propose" /\ resp'.err = ""

\* C17: the stored proposals are those with ids 1..PROPOSAL_COUNT, and the
\* ProposalCount query answers PROPOSAL_COUNT; a successful Propose adds one to
\* the counter and stores its proposal under the new value, an id no proposal
\* had; every other call, a failed Propose among them, leaves the counter and
\* the set of ids alone.
C17_IdsAreSequential ==
    /\ [](/\ DOMAIN PROPOSALS = 1..PROPOSAL_COUNT
          /\ proposal_count = PROPOSAL_COUNT)
    /\ [][/\ ProposeDone =>
                /\ PROPOSAL_COUNT' = PROPOSAL_COUNT + 1
                /\ resp'.id = PROPOSAL_COUNT'
                /\ resp'.id \notin DOMAIN PROPOSALS
                /\ DOMAIN PROPOSALS' = DOMAIN PROPOSALS \cup {resp'.id}
          /\ ~ProposeDone =>
                /\ PROPOSAL_COUNT' = PROPOSAL_COUNT
                /\ DOMAIN PROPOSALS' = DOMAIN PROPOSALS]_vars

\* the second Propose went through, after other calls on the first proposal
C17_Witness ==
    /\ resp.action = "propose" /\ resp.err = ""
    /\ resp.id = 2 /\ PROPOSAL_COUNT = 2
    /\ PROPOSALS[1].status = "Rejected"
    /\ proposal_count = 2

\* C18: a Propose made while the staking contract reports a total staked
\* supply of zero fails and creates nothing; on an un-paused dao it fails with
\* LackOfStakes unless the payment is below the minimum deposit (Unauthorized),
\* and LackOfStakes is returned for no other reason. Every stored proposal,
\* and so every Open one, has total_weight > 0.
C18_NoProposalWithoutStakes ==
    /\ [](\A id \in DOMAIN PROPOSALS : PROPOSALS[id].total_weight > 0)
    /\ [][resp'.action = "propose" =>
            /\ get_total_staked_supply = 0 =>
                  /\ resp'.err # ""
                  /\ check_paused = "" => resp'.err \in {"Unauthorized", "LackOfStakes"}
                  /\ UNCHANGED <<bank, daoVars, stakeVars>>
            /\ resp'.err = "LackOfStakes" => get_total_staked_supply = 0]_vars

\* nobody has staked and a Propose that paid the deposit was turned down
C18_Witness ==
    /\ resp.action = "propose" /\ resp.err = "LackOfStakes"
    /\ get_total_staked_supply = 0
    /\ SnapshotLoad(STAKED_TOTAL, "total") = 0
    /\ PROPOSALS = EmptyMap /\ PROPOSAL_COUNT = 0

AdminActions ==
    {"pause_dao", "update_config", "update_staking_contract", "update_token_list"}

adminState == <<CONFIG, DAO_PAUSED, STAKING_CONTRACT, TREASURY_TOKENS>>

\* C19: a call of PauseDAO, UpdateConfig, UpdateStakingContract or
\* UpdateTokenList by an account other than the dao (every such call made from
\* outside) fails with Unauthorized and changes nothing; the configuration, the
\* pause, the staking contract address and the token list change only in a
\* successful Execute of a proposal whose derived status is Passed, by the
\* messages it carries.
C19_AdminOnlyByExecute ==
    [][/\ resp'.action \in AdminActions =>
            /\ resp'.err = "Unauthorized"
            /\ UNCHANGED <<height, bank, daoVars, stakeVars>>
       /\ adminState' # adminState =>
            /\ resp'.action = "execute" /\ resp'.err = ""
            /\ current_status(PROPOSALS[resp'.id], height) = "Passed"
            /\ PROPOSALS[resp'.id].msgs # <<>>
            /\ Dispatch(DispatchEnv(bank), PROPOSALS[resp'.id].msgs).staking
                  = STAKING_CONTRACT'
            /\ Dispatch(DispatchEnv(bank), PROPOSALS[resp'.id].msgs).cfg = CONFIG']_vars

\* a user's UpdateStakingContract was turned down, on a dao whose staking
\* contract an executed proposal had replaced
C19_Witness ==
    /\ resp.action = "update_staking_contract" /\ resp.err = "Unauthorized"
    /\ STAKING_CONTRACT = NEW_STAKE
    /\ \E id \in DOMAIN PROPOSALS :
          /\ PROPOSALS[id].status = "Executed"
          /\ PROPOSALS[id].msgs = <<UpdateStakingContractMsg(NEW_STAKE)>>

\* an Execute has replaced the token list
C19_WitnessTokenList ==
    /\ resp.action = "execute" /\ resp.err = ""
    /\ TREASURY_TOKENS = {Cw20Denom}

PercentagesOf(t) == {t.threshold, t.quorum, t.veto_threshold}

\* an Execute of a proposal that is due and carries one UpdateConfig message
ExecutesUpdateConfig ==
    /\ resp'.action = "execute"
    /\ execute_error(resp'.id) = ""
    /\ Len(PROPOSALS[resp'.id].msgs) = 1
    /\ PROPOSALS[resp'.id].msgs[1].type = "update_config"

\* C20: threshold, quorum and veto_threshold of the stored configuration are
\* above 0 and at most 1 in every state, from instantiation on; an UpdateConfig
\* sent by the dao whose payload has a zero percentage and none above 1 fails
\* with ZeroThreshold, one with a percentage above 1 and none zero fails with
\* UnreachableThreshold, either leaving everything as it was, and a payload
\* with valid percentages replaces the configuration.
C20_ThresholdsInUnitInterval ==
    /\ [](\A d \in PercentagesOf(CONFIG.threshold) : ~DecimalIsZero(d) /\ ~DecimalGtOne(d))
    /\ [][ExecutesUpdateConfig =>
            LET payload == PROPOSALS[resp'.id].msgs[1].config
                zero    == \E d \in PercentagesOf(payload.threshold) : DecimalIsZero(d)
                above   == \E d \in PercentagesOf(payload.threshold) : DecimalGtOne(d)
            IN  /\ (zero /\ ~above) => resp'.err = "ZeroThreshold"
                /\ (above /\ ~zero) => resp'.err = "UnreachableThreshold"
                /\ (zero \/ above) => UNCHANGED <<height, bank, daoVars, stakeVars>>
                /\ (~zero /\ ~above) => (resp'.err = "" /\ CONFIG' = payload)]_vars

\* an UpdateConfig with a zero quorum was turned down
C20_Witness ==
    /\ resp.action = "execute" /\ resp.err = "ZeroThreshold"
    /\ PROPOSALS[resp.id].msgs = <<UpdateConfigMsg(ZeroQuorumConfig)>>
    /\ PROPOSALS[resp.id].status = "Open"
    /\ CONFIG = InitConfig

\* an UpdateConfig with a veto threshold above one was turned down
C20_WitnessUnreachable ==
    /\ resp.action = "execute" /\ resp.err = "UnreachableThreshold"
    /\ PROPOSALS[resp.id].msgs = <<UpdateConfigMsg(UnreachableVetoConfig)>>
    /\ CONFIG = InitConfig

\* an UpdateConfig with a threshold of exactly one went through
C20_WitnessOne ==
    /\ resp.action = "execute" /\ resp.err = ""
    /\ CONFIG = StrictConfig
    /\ CONFIG.threshold.threshold = DecimalPercent(100)

\* the weight Vote reads for voter u on proposal id
PowerAtStart(u, id) == get_voting_power_at_height(u, PROPOSALS[id].vote_starts_at)

\* C21: on an un-paused dao a Vote on a stored proposal is turned down with
\* InvalidProposalStatus when the proposal is not Open, with Expired when it
\* is Open and the block has reached vote_ends_at, with Unauthorized when it
\* is Open, not expired and the voter's weight at vote_starts_at is zero, and
\* goes through in every other case (derived status Open, block before
\* vote_ends_at, positive weight); a Vote that fails leaves ballots, tallies
\* and everything else as they were, one that goes through stores the ballot.
C21_VoteErrors ==
    /\ [](check_paused = "" =>
            \A id \in DOMAIN PROPOSALS, u \in Users :
                LET prop == PROPOSALS[id]
                IN  vote_error(u, id) =
                      IF prop.status # "Open" THEN "InvalidProposalStatus"
                      ELSE IF height >= prop.vote_ends_at THEN "Expired"
                      ELSE IF PowerAtStart(u, id) = 0 THEN "Unauthorized"
                      ELSE "")
    /\ [](\A id \in DOMAIN PROPOSALS, u \in Users :
            (/\ check_paused = ""
             /\ current_status(PROPOSALS[id], height) = "Open"
             /\ height < PROPOSALS[id].vote_ends_at
             /\ PowerAtStart(u, id) > 0) => vote_error(u, id) = "")
    /\ [][resp'.action = "vote" =>
            IF resp'.err # ""
            THEN UNCHANGED <<height, bank, daoVars, stakeVars>>
            ELSE /\ vote_error(resp'.sender, resp'.id) = ""
                 /\ BALLOTS'[<<resp'.id, resp'.sender>>] =
                       [weight |-> PowerAtStart(resp'.sender, resp'.id),
                        vote   |-> resp'.result]]_vars

\* a Vote was turned down for want of voting power at vote_starts_at
C21_Witness ==
    /\ resp.action = "vote" /\ resp.err = "Unauthorized"
    /\ PROPOSALS[resp.id].status = "Open"
    /\ height < PROPOSALS[resp.id].vote_ends_at
    /\ \E u \in Users : PowerAtStart(u, resp.id) = 0

\* a Vote was turned down on a proposal that is still Pending
C21_WitnessPending ==
    /\ resp.action = "vote" /\ resp.err = "InvalidProposalStatus"
    /\ PROPOSALS[resp.id].status = "Pending"

\* a Vote was turned down at vote_ends_at
C21_WitnessExpired ==
    /\ resp.action = "vote" /\ resp.err = "Expired"
    /\ PROPOSALS[resp.id].status = "Open"
    /\ height = PROPOSALS[resp.id].vote_ends_at

\* The deposits recorded on a proposal, by depositor.
DepositsOn(deps, id) ==
    [u \in {v \in Users : MapHas(deps, <<id, v>>)} |-> deps[<<id, u>>].amount]

\* C22: while the dao is not paused, Deposit on a stored proposal fails with
\* Unauthorized when no governance token is attached, with
\* InvalidProposalStatus when the stored status is not Pending and with Expired
\* when deposit_ends_at has been reached (the first of the three that applies, in
\* this order, is the one reported), and a Deposit that fails changes nothing.
\* A proposal whose stored status is no longer Pending keeps its deposits, its
\* total_deposit and its voting window, and never becomes Pending again, so
\* that the voting window is activated at most once.
C22_DepositErrors ==
    /\ [](check_paused = "" =>
            \A id \in DOMAIN PROPOSALS, a \in 0..InitFunds :
                LET prop == PROPOSALS[id]
                IN  /\ deposit_error(id, a) =
                          IF a = 0 THEN "Unauthorized"
                          ELSE IF prop.status # "Pending" THEN "InvalidProposalStatus"
                          ELSE IF height >= prop.deposit_ends_at THEN "Expired"
                          ELSE ""
                    /\ (\/ a = 0
                        \/ prop.status # "Pending"
                        \/ height >= prop.deposit_ends_at) => deposit_error(id, a) # "")
    /\ [][(resp'.action = "deposit" /\ resp'.err # "") =>
            UNCHANGED <<height, bank, daoVars, stakeVars>>]_vars
    /\ [][\A id \in DOMAIN PROPOSALS :
            PROPOSALS[id].status # "Pending" =>
                /\ PROPOSALS'[id].status # "Pending"
                /\ PROPOSALS'[id].total_deposit = PROPOSALS[id].total_deposit
                /\ PROPOSALS'[id].vote_starts_at = PROPOSALS[id].vote_starts_at
                /\ PROPOSALS'[id].vote_ends_at = PROPOSALS[id].vote_ends_at
                /\ DepositsOn(DEPOSITS', id) = DepositsOn(DEPOSITS, id)]_vars

\* a Deposit with tokens attached was turned down on a proposal that is Open
C22_Witness ==
    /\ resp.action = "deposit" /\ resp.err = "InvalidProposalStatus"
    /\ PROPOSALS[resp.id].status = "Open"
    /\ height < PROPOSALS[resp.id].deposit_ends_at

\* a Deposit was turned down at deposit_ends_at on a Pending proposal
C22_WitnessExpired ==
    /\ resp.action = "deposit" /\ resp.err = "Expired"
    /\ PROPOSALS[resp.id].status = "Pending"
    /\ height = PROPOSALS[resp.id].deposit_ends_at

\* a Deposit without tokens was turned down on a Pending proposal in its window
C22_WitnessNoFunds ==
    /\ resp.action = "deposit" /\ resp.err = "Unauthorized"
    /\ MapHas(PROPOSALS, resp.id)
    /\ PROPOSALS[resp.id].status = "Pending"
    /\ height < PROPOSALS[resp.id].deposit_ends_at

\* a proposal was opened by a Deposit
C22_WitnessOpened ==
    /\ resp.action = "deposit" /\ resp.err = "" /\ resp.result = "open"
    /\ PROPOSALS[resp.id].status = "Open"
    /\ PROPOSALS[resp.id].vote_starts_at = height

\* The status a proposal shows at the current block.
Derived(id) == current_status(PROPOSALS[id], height)

\* C23: a proposal whose derived status is Passed is never Rejected afterwards:
\* Close fails on it, with InvalidProposalStatus while the dao is not paused, and
\* every step leaves it Passed or makes it Executed.  Execute fails on a
\* proposal whose derived status is Rejected, with InvalidProposalStatus once
\* vote_ends_at is reached, and every step leaves it Rejected.
\* In no state can Execute and Close both pass their checks on one proposal,
\* and after one of them succeeded the other fails.
C23_PassedNeverRejected ==
    /\ [](\A id \in DOMAIN PROPOSALS :
            /\ Derived(id) = "Passed" =>
                  /\ close_error(id) # ""
                  /\ check_paused = "" => close_error(id) = "InvalidProposalStatus"
            /\ Derived(id) = "Rejected" =>
                  /\ execute_error(id) # ""
                  /\ (check_paused = "" /\ height >= PROPOSALS[id].vote_ends_at) =>
                        execute_error(id) = "InvalidProposalStatus"
            /\ ~(execute_error(id) = "" /\ close_error(id) = "")
            /\ PROPOSALS[id].status = "Executed" => close_error(id) # ""
            /\ PROPOSALS[id].status = "Rejected" => execute_error(id) # "")
    /\ [][\A id \in DOMAIN PROPOSALS :
            /\ Derived(id) = "Passed" =>
                  /\ PROPOSALS'[id].status \in {"Open", "Executed"}
                  /\ current_status(PROPOSALS'[id], height') \in {"Passed", "Executed"}
            /\ Derived(id) = "Rejected" =>
                  /\ PROPOSALS'[id].status # "Executed"
                  /\ current_status(PROPOSALS'[id], height') = "Rejected"]_vars

\* Close was turned down on an Open proposal whose vote ended with Passed
C23_Witness ==
    /\ resp.action = "close" /\ resp.err = "InvalidProposalStatus"
    /\ PROPOSALS[resp.id].status = "Open"
    /\ Derived(resp.id) = "Passed"

\* Execute was turned down on an Open proposal whose vote ended with Rejected
C23_WitnessExecute ==
    /\ resp.action = "execute" /\ resp.err = "InvalidProposalStatus"
    /\ PROPOSALS[resp.id].status = "Open"
    /\ Derived(resp.id) = "Rejected"

\* Close was turned down on a proposal that was executed
C23_WitnessAfterExecute ==
    /\ resp.action = "close" /\ resp.err = "InvalidProposalStatus"
    /\ PROPOSALS[resp.id].status = "Executed"

ClaimDone == resp'.action = "claim_deposit" /\ resp'.err = ""

\* C24: a ClaimDeposit that succeeds was made on a proposal whose
\* deposit_claimable is set, by a caller whose deposit record was not claimed;
\* it moves exactly the recorded amount from the dao to the caller and sets
\* claimed on that record and changes nothing else.  A claimed record stays
\* claimed with its amount, a further claim of it fails with
\* DepositAlreadyClaimed, and no other step than its one claim pays it out.
C24_ClaimPaysOnce ==
    /\ [][ClaimDone =>
            LET key == <<resp'.id, resp'.sender>>
            IN  /\ MapHas(PROPOSALS, resp'.id)
                /\ PROPOSALS[resp'.id].deposit_claimable
                /\ MapHas(DEPOSITS, key)
                /\ ~DEPOSITS[key].claimed
                /\ DEPOSITS' = [DEPOSITS EXCEPT ![key].claimed = TRUE]
                /\ resp'.messages = <<BankSendMsg(resp'.sender, DEPOSITS[key].amount)>>
                /\ bank' = BankSend(bank, DAO, resp'.sender, DEPOSITS[key].amount)
                /\ UNCHANGED <<height, CONFIG, DAO_PAUSED, PROPOSAL_COUNT, PROPOSALS,
                               IDX_PROPS_BY_STATUS, IDX_PROPS_BY_PROPOSER, BALLOTS,
                               IDX_DEPOSITS_BY_DEPOSITOR, stakeVars>>]_vars
    /\ [][\A key \in DOMAIN DEPOSITS :
            DEPOSITS[key].claimed => DEPOSITS'[key] = DEPOSITS[key]]_vars
    /\ [][\A key \in DOMAIN DEPOSITS :
            (~DEPOSITS[key].claimed /\ DEPOSITS'[key].claimed) =>
                ClaimDone /\ key = <<resp'.id, resp'.sender>>]_vars
    /\ [](\A key \in DOMAIN DEPOSITS :
            DEPOSITS[key].claimed =>
                /\ claim_deposit_error(key[2], key[1]) # ""
                /\ check_paused = "" =>
                      claim_deposit_error(key[2], key[1]) = "DepositAlreadyClaimed")
    /\ [](\A id \in DOMAIN PROPOSALS, u \in Users :
            claim_deposit_error(u, id) = "" =>
                /\ PROPOSALS[id].deposit_claimable
                /\ MapHas(DEPOSITS, <<id, u>>)
                /\ ~DEPOSITS[<<id, u>>].claimed)

\* a second claim of a paid deposit was turned down
C24_Witness ==
    /\ resp.action = "claim_deposit" /\ resp.err = "DepositAlreadyClaimed"
    /\ \E u \in Users :
          /\ MapHas(DEPOSITS, <<resp.id, u>>)
          /\ DEPOSITS[<<resp.id, u>>].claimed
          /\ DEPOSITS[<<resp.id, u>>].amount > 0

\* a deposit was paid out to its depositor
C24_WitnessPaid ==
    /\ resp.action = "claim_deposit" /\ resp.err = ""
    /\ DEPOSITS[<<resp.id, resp.sender>>].claimed
    /\ resp.messages =
          <<BankSendMsg(resp.sender, DEPOSITS[<<resp.id, resp.sender>>].amount)>>

\* a claim was turned down on a proposal whose deposits were confiscated
C24_WitnessNotClaimable ==
    /\ resp.action = "claim_deposit" /\ resp.err = "DepositNotClaimable"
    /\ PROPOSALS[resp.id].status = "Rejected"

\* The ballots cast on a proposal, by voter.
BallotsOn(ballots, id) ==
    [u \in {v \in Users : MapHas(ballots, <<id, v>>)} |-> ballots[<<id, u>>]]

VoteEnded(id) == height >= PROPOSALS[id].vote_ends_at

\* C25: once the block height has reached a proposal's vote_ends_at every Vote
\* on it fails, and no step changes its tally, its ballots, the total_weight
\* and threshold the tally is measured against, or the outcome (passed,
\* vetoed) that Execute and Close compute from them.
C25_TallyFrozenAtExpiry ==
    /\ [](\A id \in DOMAIN PROPOSALS, u \in Users :
            VoteEnded(id) => vote_error(u, id) # "")
    /\ [][\A id \in DOMAIN PROPOSALS :
            VoteEnded(id) =>
                /\ PROPOSALS'[id].votes = PROPOSALS[id].votes
                /\ PROPOSALS'[id].total_weight = PROPOSALS[id].total_weight
                /\ PROPOSALS'[id].threshold = PROPOSALS[id].threshold
                /\ PROPOSALS'[id].vote_ends_at = PROPOSALS[id].vote_ends_at
                /\ BallotsOn(BALLOTS', id) = BallotsOn(BALLOTS, id)
                /\ is_passed(PROPOSALS'[id]) = is_passed(PROPOSALS[id])
                /\ is_vetoed(PROPOSALS'[id]) = is_vetoed(PROPOSALS[id])]_vars
    /\ [][(resp'.action = "vote" /\ resp'.err = "") =>
            height < PROPOSALS[resp'.id].vote_ends_at]_vars

\* a Vote was turned down after vote_ends_at, cast by a staker who held voting
\* power at vote_starts_at and had not voted
C25_Witness ==
    /\ resp.action = "vote" /\ resp.err = "Expired"
    /\ PROPOSALS[resp.id].status = "Open"
    /\ height > PROPOSALS[resp.id].vote_ends_at
    /\ \E u \in Users :
          /\ PowerAtStart(u, resp.id) > 0
          /\ ~MapHas(BALLOTS, <<resp.id, u>>)

\* an outcome was crystallized a block after the vote had ended
C25_WitnessCrystallized ==
    /\ resp.action \in {"execute", "close"} /\ resp.err = ""
    /\ height > PROPOSALS[resp.id].vote_ends_at
    /\ VotesTotal(PROPOSALS[resp.id].votes) > 0

\* C26: a reading of the staking contract at a height that has been reached
\* is final: no Stake, Unstake, Fund or Claim, in the block of that height or
\* in a later one, and no new block changes what StakedBalanceAtHeight and
\* TotalStakedAtHeight return for it.
C26_HistoricalReadingsAreFinal ==
    [][\A H \in 0..height :
         /\ SnapshotLoadAtHeight(STAKED_TOTAL', "total", H) =
               query_total_staked_at_height(H)
         /\ \A u \in Users :
               SnapshotLoadAtHeight(STAKED_BALANCES', u, H) =
                 query_staked_balance_at_height(u, H)]_vars

\* the stake of an address changed in two different blocks, and what it was
\* at the start of the earlier block is neither what it was at the start of
\* the later block nor what it is now
C26_Witness ==
    /\ resp.action \in {"stake", "unstake"} /\ resp.err = ""
    /\ \E u \in Users, H1 \in 1..height, H2 \in 1..height :
          /\ H1 < H2
          /\ MapHas(STAKED_BALANCES.log, <<u, H1>>)
          /\ MapHas(STAKED_BALANCES.log, <<u, H2>>)
          /\ query_staked_balance_at_height(u, H1) #
                query_staked_balance_at_height(u, H2)
          /\ query_staked_balance_at_height(u, H2) # SnapshotLoad(STAKED_BALANCES, u)
          /\ query_staked_balance_at_height(u, H1) # SnapshotLoad(STAKED_BALANCES, u)

\* the stake of an address changed twice in the block it is read at
C26_WitnessSameBlock ==
    /\ resp.action \in {"stake", "unstake"} /\ resp.err = ""
    /\ stake_ops = MaxStakeOps - SnapshotOps + 2
    /\ \E u \in Users :
          /\ MapHas(STAKED_BALANCES.log, <<u, height>>)
          /\ \A H \in 1..(height - 1) : ~MapHas(STAKED_BALANCES.log, <<u, H>>)
          /\ query_staked_balance_at_height(u, height) = TwoStakers[u]
          /\ SnapshotLoad(STAKED_BALANCES, u) \notin
                {TwoStakers[u] + a : a \in (0 - TightFunds)..TightFunds}

\* tokens were funded and a matured claim was paid out after an unstake
C26_WitnessClaim ==
    /\ resp.action = "claim" /\ resp.err = ""
    /\ BALANCE # SnapshotLoad(STAKED_TOTAL, "total")

\* Everything paid in for a proposal by Propose and Deposit: create_deposit
\* adds each payment to the payer's record.
PaidIn(deps, id) ==
    SumOver([u \in Users |-> IF MapHas(deps, <<id, u>>) THEN deps[<<id, u>>].amount ELSE 0],
            Users)

\* The excess sent back by the Propose or the Deposit that opened the proposal,
\* in a dao whose proposal_deposit is never reconfigured.
Refunded(props, id) ==
    IF MapHas(props, id) /\ props[id].vote_starts_at > 0
    THEN props[id].total_deposit - props[id].deposit_base_amount
    ELSE 0

\* What ClaimDeposit has paid out on a proposal.
ClaimedBack(deps, id) ==
    SumOver([u \in Users |-> IF MapHas(deps, <<id, u>>) /\ deps[<<id, u>>].claimed
                             THEN deps[<<id, u>>].amount ELSE 0],
            Users)

\* Refunded is what Propose and Deposit send back, and ClaimedBack what
\* ClaimDeposit sends.
PaidBackLedger ==
    [][(resp'.err = "" /\ resp'.action \in {"propose", "deposit", "claim_deposit"}) =>
         LET sent == IF resp'.messages = <<>> THEN 0 ELSE resp'.messages[1].amount
         IN  sent = (Refunded(PROPOSALS', resp'.id) + ClaimedBack(DEPOSITS', resp'.id))
                    - (Refunded(PROPOSALS, resp'.id) + ClaimedBack(DEPOSITS, resp'.id))]_vars

\* C27: for every proposal, the refunds of overpayments and the claimed
\* deposits together never exceed what was paid in for it, and no user ever
\* holds more tokens than before the first payment.
C27_PaidBackWithinPaidIn ==
    /\ \A id \in DOMAIN PROPOSALS :
          Refunded(PROPOSALS, id) + ClaimedBack(DEPOSITS, id) <= PaidIn(DEPOSITS, id)
    /\ \A u \in Users : bank[u] <= TightFunds

\* a depositor who overpaid, was refunded the excess and then claimed the whole
\* payment holds more tokens than before the first payment
C27_Witness ==
    /\ resp.action = "claim_deposit" /\ resp.err = ""
    /\ DEPOSITS[<<resp.id, resp.sender>>].claimed
    /\ Refunded(PROPOSALS, resp.id) > 0
    /\ bank[resp.sender] > TightFunds
    /\ Refunded(PROPOSALS, resp.id) + ClaimedBack(DEPOSITS, resp.id)
          > PaidIn(DEPOSITS, resp.id)

\* the claims on one proposal were paid with the deposit of another, whose own
\* claimable deposit the dao can no longer pay
C27_WitnessDrained ==
    /\ resp.action = "claim_deposit" /\ resp.err = "InsufficientFunds"
    /\ \E u \in Users :
          /\ MapHas(DEPOSITS, <<resp.id, u>>)
          /\ ~DEPOSITS[<<resp.id, u>>].claimed
          /\ PROPOSALS[resp.id].deposit_claimable
          /\ Refunded(PROPOSALS, resp.id) = 0
          /\ bank[DAO] < DEPOSITS[<<resp.id, u>>].amount

\* Execute succeeds: its checks pass and so does every message it dispatches.
ExecuteSucceeds(id) ==
    /\ execute_error(id) = ""
    /\ Dispatch(DispatchEnv(bank), PROPOSALS[id].msgs).ok

\* C28: while the dao is not paused, Close succeeds on every proposal stored
\* as Pending whose deposit_ends_at has been reached, and Execute or Close
\* succeeds on every proposal stored as Open whose vote_ends_at has been
\* reached.
C28_ExpiredCanBeCrystallized ==
    check_paused = "" =>
        \A id \in DOMAIN PROPOSALS :
            LET prop == PROPOSALS[id]
            IN  /\ (prop.status = "Pending" /\ height >= prop.deposit_ends_at) =>
                      close_error(id) = ""
                /\ (prop.status = "Open" /\ height >= prop.vote_ends_at) =>
                      (ExecuteSucceeds(id) \/ close_error(id) = "")

\* A proposal stored as Pending that holds its deposit_base_amount after its
\* deposit window: its derived status is Open.
StuckPending(id) ==
    /\ PROPOSALS[id].status = "Pending"
    /\ PROPOSALS[id].total_deposit >= PROPOSALS[id].deposit_base_amount
    /\ height >= PROPOSALS[id].deposit_ends_at

\* a Close was turned down on such a proposal, on which Deposit, Vote and
\* Execute fail as well while the dao is not paused
C28_Witness ==
    /\ resp.action = "close" /\ resp.err = "InvalidProposalStatus"
    /\ check_paused = ""
    /\ StuckPending(resp.id)
    /\ \A a \in 0..InitFunds : deposit_error(resp.id, a) # ""
    /\ \A u \in Users : vote_error(u, resp.id) # ""
    /\ execute_error(resp.id) # ""

\* What the code does with such a proposal: no step changes it, and Deposit,
\* Vote, Execute and Close fail on it in every later state.
StuckPendingStaysStuck ==
    /\ [](\A id \in DOMAIN PROPOSALS :
            StuckPending(id) =>
                /\ close_error(id) # ""
                /\ execute_error(id) # ""
                /\ \A a \in 0..InitFunds : deposit_error(id, a) # ""
                /\ \A u \in Users : vote_error(u, id) # "")
    /\ [][\A id \in DOMAIN PROPOSALS :
            StuckPending(id) => PROPOSALS'[id] = PROPOSALS[id]]_vars

\* a passed proposal whose messages fail: Execute is reverted and Close is
\* turned down
C28_WitnessPassed ==
    /\ resp.action = "execute" /\ resp.err \in DispatchErrors
    /\ check_paused = ""
    /\ PROPOSALS[resp.id].status = "Open"
    /\ Derived(resp.id) = "Passed"
    /\ close_error(resp.id) = "InvalidProposalStatus"

\* C29: with the handlers of contract.rs, a Close that succeeds on an Open
\* proposal past its expiration finds a tally that does not pass: a proposal
\* whose final tally meets quorum and threshold without a veto is not made
\* Rejected by Close.
C29_LegacyCloseOnlyRejected ==
    [][(/\ resp'.action = "close" /\ resp'.err = ""
        /\ PROPOSALS[resp'.id].status = "Open") =>
            legacy_current_status(PROPOSALS[resp'.id], height) = "Rejected"]_vars

\* a Close made an Open proposal Rejected and refunded its deposit although
\* its final tally passes, and Execute is turned down on it from then on
C29_Witness ==
    /\ resp.action = "close" /\ resp.err = "" /\ resp.result = "refunded"
    /\ PROPOSALS[resp.id].status = "Rejected"
    /\ PROPOSALS[resp.id].vote_starts_at > 0
    /\ PROPOSALS[resp.id].votes.yes > 0
    /\ is_passed(PROPOSALS[resp.id])
    /\ execute_execute_error(resp.id) = "WrongExecuteStatus"

\* What execute_close does: it tests the stored status and the expiration and
\* never the tally.
LegacyCloseIgnoresTally ==
    \A id \in DOMAIN PROPOSALS :
        (/\ check_paused = ""
         /\ PROPOSALS[id].status = "Open"
         /\ height >= PROPOSALS[id].expires_at) => execute_close_error(id) = ""

\* C30: with the handlers of contract.rs, after every Deposit that returned
\* Ok the proposal is in exactly one bucket of IDX_PROPS_BY_STATUS, the bucket
\* of its stored status.
C30_LegacyDepositKeepsIndex ==
    (resp.action = "deposit" /\ resp.err = "") =>
        BucketsOf(resp.id) = {PROPOSALS[resp.id].status}

\* a Deposit on a Pending proposal past its deposit window returned Ok with a
\* refund and left the proposal, still stored as Pending, in no bucket
C30_Witness ==
    /\ resp.action = "deposit" /\ resp.err = "" /\ resp.result = "refund"
    /\ resp.messages[1].amount > 0
    /\ PROPOSALS[resp.id].status = "Pending"
    /\ height >= PROPOSALS[resp.id].expires_at
    /\ BucketsOf(resp.id) = {}

\* What execute_deposit does when it saves: the index follows the saved status.
LegacyProcessedDepositKeepsIndex ==
    (resp.action = "deposit" /\ resp.err = "" /\ resp.result = "processed") =>
        BucketsOf(resp.id) = {PROPOSALS[resp.id].status}

\* C31: for every proposal, votes.total() never exceeds total_weight, also when
\* stake is added between the submission of a Pending proposal and the
\* activation of its voting window.
C31_TallyWithinTotalWeight ==
    \A id \in DOMAIN PROPOSALS :
        VotesTotal(PROPOSALS[id].votes) <= PROPOSALS[id].total_weight

\* ballots were accepted on a proposal that was submitted Pending and opened in
\* a later block, after stake had been added: the supply at vote_starts_at,
\* where the ballots are weighed, is above the total_weight of the proposal
C31_Witness ==
    /\ resp.action = "vote" /\ resp.err = ""
    /\ PROPOSALS[resp.id].submitted_at < PROPOSALS[resp.id].vote_starts_at
    /\ query_total_staked_at_height(PROPOSALS[resp.id].vote_starts_at)
         > PROPOSALS[resp.id].total_weight
    /\ BALLOTS[<<resp.id, resp.sender>>].weight =
         query_staked_balance_at_height(resp.sender, PROPOSALS[resp.id].vote_starts_at)
    /\ VotesTotal(PROPOSALS[resp.id].votes) > PROPOSALS[resp.id].total_weight

\* the tally is within the electorate of the block the ballots are weighed at
TallyWithinSupplyAtVoteStart ==
    \A id \in DOMAIN PROPOSALS :
        PROPOSALS[id].status # "Pending" =>
          VotesTotal(PROPOSALS[id].votes)
            <= query_total_staked_at_height(PROPOSALS[id].vote_starts_at)

\* a proposal opened in the block it was submitted in keeps its tally within
\* its total_weight
OpenedAtSubmissionWithinTotalWeight ==
    \A id \in DOMAIN PROPOSALS :
        PROPOSALS[id].vote_starts_at = PROPOSALS[id].submitted_at =>
          VotesTotal(PROPOSALS[id].votes) <= PROPOSALS[id].total_weight

\* C32: a proposal whose yes tally is zero is never derived as Passed and can
\* never be executed, in particular when the quorum is met by Abstain votes
\* only, so that the opinion base votes.total() - votes.abstain is zero.
C32_ZeroYesNeverPasses ==
    \A id \in DOMAIN PROPOSALS :
        PROPOSALS[id].votes.yes = 0 =>
          /\ current_status(PROPOSALS[id], height) # "Passed"
          /\ PROPOSALS[id].status # "Executed"
          /\ execute_error(id) # ""

\* Execute was accepted on a proposal whose ballots are all Abstain and meet
\* the quorum
C32_Witness ==
    /\ resp.action = "execute" /\ resp.err = ""
    /\ PROPOSALS[resp.id].status = "Executed"
    /\ PROPOSALS[resp.id].votes.yes = 0
    /\ PROPOSALS[resp.id].votes.abstain = VotesTotal(PROPOSALS[resp.id].votes)
    /\ PROPOSALS[resp.id].votes.abstain
         >= votes_needed(PROPOSALS[resp.id].total_weight,
                         PROPOSALS[resp.id].threshold.quorum)
    /\ \E u \in Users : MapHas(BALLOTS, <<resp.id, u>>)

\* a proposal without a Yes but with a No or a Veto among its ballots is never
\* derived as Passed and never executed
ZeroYesWithOpinionsNeverPasses ==
    \A id \in DOMAIN PROPOSALS :
        /\ PROPOSALS[id].votes.yes = 0
        /\ VotesTotal(PROPOSALS[id].votes) > PROPOSALS[id].votes.abstain
        => /\ current_status(PROPOSALS[id], height) # "Passed"
           /\ PROPOSALS[id].status # "Executed"
           /\ execute_error(id) # ""

\* what a Propose call brought: the amount of the deposit record it created
PaidWith(deps, id, sender) == deps[<<id, sender>>].amount

\* C33: a Propose that goes through with a payment of at least proposal_deposit
\* stores the proposal as Open with vote_starts_at the current block and
\* vote_ends_at = now + voting_period; with a payment from proposal_min_deposit
\* up to, not including, proposal_deposit it stores it as Pending with
\* total_deposit the payment, vote_starts_at unset and vote_ends_at = now +
\* deposit_period + voting_period; in both cases deposit_ends_at = now +
\* deposit_period.  On an un-paused dao a Propose with a payment below
\* proposal_min_deposit fails with Unauthorized, and a Propose that fails
\* changes nothing.
C33_ProposeOutcome ==
    /\ [](check_paused = "" =>
            \A a \in 0..InitFunds :
                /\ a < CONFIG.proposal_min_deposit => propose_error(a) = "Unauthorized"
                /\ propose_error(a) = "Unauthorized" => a < CONFIG.proposal_min_deposit)
    /\ [][resp'.action = "propose" =>
            IF resp'.err # ""
            THEN UNCHANGED <<height, bank, daoVars, stakeVars>>
            ELSE LET id   == resp'.id
                     prop == PROPOSALS'[id]
                     paid == PaidWith(DEPOSITS', id, resp'.sender)
                 IN  /\ ~MapHas(PROPOSALS, id)
                     /\ paid >= CONFIG.proposal_min_deposit
                     /\ bank[resp'.sender] - bank'[resp'.sender]
                          = (IF paid >= CONFIG.proposal_deposit
                             THEN CONFIG.proposal_deposit ELSE paid)
                     /\ prop.deposit_ends_at = height + CONFIG.deposit_period
                     /\ <<prop.status, id>> \in IDX_PROPS_BY_STATUS'
                     /\ IF paid >= CONFIG.proposal_deposit
                        THEN /\ prop.status = "Open"
                             /\ prop.vote_starts_at = height
                             /\ prop.vote_ends_at = height + CONFIG.voting_period
                        ELSE /\ prop.status = "Pending"
                             /\ prop.total_deposit = paid
                             /\ prop.vote_starts_at = 0
                             /\ prop.vote_ends_at =
                                  height + CONFIG.deposit_period + CONFIG.voting_period]_vars

\* a Propose with a payment between proposal_min_deposit and proposal_deposit
\* went through and stored a Pending proposal
C33_Witness ==
    /\ resp.action = "propose" /\ resp.err = ""
    /\ PaidWith(DEPOSITS, resp.id, resp.sender) >= CONFIG.proposal_min_deposit
    /\ PaidWith(DEPOSITS, resp.id, resp.sender) < CONFIG.proposal_deposit
    /\ PROPOSALS[resp.id].status = "Pending"
    /\ PROPOSALS[resp.id].vote_starts_at = 0
    /\ PROPOSALS[resp.id].vote_ends_at = PROPOSALS[resp.id].deposit_ends_at + CONFIG.voting_period

\* a Propose with a payment of proposal_deposit went through and stored an Open
\* proposal whose vote ends before the end its Pending form would have had
C33_WitnessOpen ==
    /\ resp.action = "propose" /\ resp.err = ""
    /\ PaidWith(DEPOSITS, resp.id, resp.sender) >= CONFIG.proposal_deposit
    /\ PROPOSALS[resp.id].status = "Open"
    /\ PROPOSALS[resp.id].vote_starts_at = height
    /\ PROPOSALS[resp.id].vote_ends_at = height + CONFIG.voting_period
    /\ PROPOSALS[resp.id].vote_ends_at
         < height + CONFIG.deposit_period + CONFIG.voting_period

\* a Propose below proposal_min_deposit was turned down on an un-paused dao
C33_WitnessUnderpaid ==
    /\ resp.action = "propose" /\ resp.err = "Unauthorized"
    /\ check_paused = ""
    /\ CONFIG.proposal_min_deposit > 0

\* the calls that check_paused guards
GovernanceActions ==
    {"propose", "deposit", "vote", "execute", "close", "claim_deposit"}

\* the errors the six calls would return now, over their arguments
GovernanceErrors ==
    {propose_error(a) : a \in 0..InitFunds}
      \cup {deposit_error(id, a) : id \in ProposalIds, a \in 0..InitFunds}
      \cup {vote_error(u, id) : u \in Users, id \in ProposalIds}
      \cup {execute_error(id) : id \in ProposalIds}
      \cup {close_error(id) : id \in ProposalIds}
      \cup {claim_deposit_error(u, id) : u \in Users, id \in ProposalIds}

\* DAO_PAUSED holds an expiration that the block has not reached
PauseRunning == DAO_PAUSED.kind = "AtHeight" /\ height < DAO_PAUSED.h

\* C34: while a pause set by PauseDAO has not expired, Propose, Deposit, Vote,
\* Execute, Close and ClaimDeposit fail with Paused whatever their arguments and
\* change nothing; from the block at which the expiration is reached none of
\* them fails with Paused any more.
C34_PausedUntilExpiry ==
    /\ [](PauseRunning => GovernanceErrors = {"Paused"})
    /\ []((DAO_PAUSED.kind = "AtHeight" /\ height >= DAO_PAUSED.h)
            => "Paused" \notin GovernanceErrors)
    /\ [][(PauseRunning /\ resp'.action \in GovernanceActions)
            => resp'.err = "Paused"]_vars
    /\ [][resp'.err = "Paused"
            => /\ resp'.action \in GovernanceActions
               /\ UNCHANGED <<height, bank, daoVars, stakeVars>>]_vars

\* a call was turned down with Paused one block before the pause expires
C34_Witness ==
    /\ resp.err = "Paused"
    /\ resp.action \in GovernanceActions
    /\ DAO_PAUSED.kind = "AtHeight" /\ height = DAO_PAUSED.h - 1

\* a ClaimDeposit was accepted in the block the pause expires at
C34_WitnessResumed ==
    /\ resp.action = "claim_deposit" /\ resp.err = ""
    /\ DAO_PAUSED.kind = "AtHeight" /\ height = DAO_PAUSED.h

\* check_paused at block h: whether the stored expiration refuses the calls
\* of that block
PausedAt(h) ==
    /\ DAO_PAUSED.kind # "None"
    /\ ~(DAO_PAUSED.kind = "AtHeight" /\ is_expired(DAO_PAUSED.h, h))

\* PausedAt at the current block is check_paused
PausedAtIsCheckPaused == PausedAt(height) <=> check_paused = "Paused"

\* C37: every pause ends: whatever expiration PauseDAO accepted, there is a
\* block, the current one or a later one, at which the calls guarded by
\* check_paused are no longer refused with Paused.
C37_EveryPauseEnds == \E h \in height..MaxHeight : ~PausedAt(h)

\* the dao was paused with Expiration::Never by an executed proposal, and the
\* Execute of a passed proposal that would lift the pause is refused
C37_Witness ==
    /\ resp.action = "execute" /\ resp.err = "Paused"
    /\ DAO_PAUSED = Never
    /\ MapHas(PROPOSALS, resp.id)
    /\ \E id \in DOMAIN PROPOSALS :
          /\ PROPOSALS[id].status = "Executed"
          /\ PROPOSALS[id].msgs = <<PauseDAOMsg(Never)>>
          /\ PROPOSALS[id].vote_ends_at < height
    /\ PROPOSALS[resp.id].msgs = <<PauseDAOMsg(AtHeight(1))>>
    /\ PROPOSALS[resp.id].status = "Open"
    /\ is_passed(PROPOSALS[resp.id])

\* once DAO_PAUSED is Expiration::Never it stays so, every guarded call is
\* refused with Paused, and no step changes the dao or the bank any more
NeverPauseIsPermanent ==
    /\ [](DAO_PAUSED = Never => GovernanceErrors = {"Paused"})
    /\ [][DAO_PAUSED = Never => UNCHANGED <<bank, daoVars>>]_vars

\* a pause with an expiration at a height ends at that height
HeightPauseEnds ==
    DAO_PAUSED.kind = "AtHeight" =>
        \A h \in height..MaxHeight : PausedAt(h) <=> h < DAO_PAUSED.h

\* what the messages of a Response send to `to`
RECURSIVE SentTo(_, _)
SentTo(msgs, to) ==
    IF msgs = <<>> THEN 0
    ELSE (IF Head(msgs).type = "bank_send" /\ Head(msgs).to = to
          THEN Head(msgs).amount ELSE 0) + SentTo(Tail(msgs), to)

\* the amount recorded for depositor u on proposal id, 0 without a record
RecordedAmount(deps, id, u) == IF MapHas(deps, <<id, u>>) THEN deps[<<id, u>>].amount ELSE 0

\* C35: the deposits of one depositor on one proposal are kept in one record
\* whose amount is the sum of the payments (each Propose or Deposit that goes
\* through adds the tokens attached to the call to the record of the caller
\* and leaves every other record alone, and no other call changes an amount),
\* and IDX_DEPOSITS_BY_DEPOSITOR holds the pair (depositor, proposal) exactly
\* when DEPOSITS holds a record for that pair.
C35_DepositsAccumulate ==
    /\ [](IDX_DEPOSITS_BY_DEPOSITOR = {<<k[2], k[1]>> : k \in DOMAIN DEPOSITS})
    /\ [][IF resp'.action \in {"propose", "deposit"} /\ resp'.err = ""
          THEN LET key  == <<resp'.id, resp'.sender>>
                   paid == bank[resp'.sender] - bank'[resp'.sender]
                             + SentTo(resp'.messages, resp'.sender)
               IN  /\ DOMAIN DEPOSITS' = DOMAIN DEPOSITS \cup {key}
                   /\ DEPOSITS'[key].amount
                        = RecordedAmount(DEPOSITS, resp'.id, resp'.sender) + paid
                   /\ \A k \in DOMAIN DEPOSITS \ {key} : DEPOSITS'[k] = DEPOSITS[k]
          ELSE /\ DOMAIN DEPOSITS' = DOMAIN DEPOSITS
               /\ \A k \in DOMAIN DEPOSITS : DEPOSITS'[k].amount = DEPOSITS[k].amount]_vars

\* a Deposit went through for a depositor who already had a record on the
\* proposal: the record holds more than this payment, under one index entry
C35_Witness ==
    /\ resp.action = "deposit" /\ resp.err = ""
    /\ MapHas(DEPOSITS, <<resp.id, resp.sender>>)
    /\ DEPOSITS[<<resp.id, resp.sender>>].amount = 2
    /\ SentTo(resp.messages, resp.sender) = 0
    /\ PROPOSALS[resp.id].proposer = resp.sender
    /\ PROPOSALS[resp.id].total_deposit = 2
    /\ <<resp.sender, resp.id>> \in IDX_DEPOSITS_BY_DEPOSITOR

\* a depositor with records on two proposals
C35_WitnessTwoProposals ==
    \E u \in Users :
        /\ MapHas(DEPOSITS, <<1, u>>) /\ MapHas(DEPOSITS, <<2, u>>)
        /\ {<<u, 1>>, <<u, 2>>} \subseteq IDX_DEPOSITS_BY_DEPOSITOR

\* the sum of the amounts of the deposit records of proposal id
SumOfDeposits(deps, id) ==
    SumOver([u \in Users |-> RecordedAmount(deps, id, u)], Users)

\* C38: for every proposal, after any sequence of Propose and Deposit calls,
\* total_deposit is the sum of the amounts of all deposit records of that
\* proposal.
C38_TotalDepositIsSumOfRecords ==
    \A id \in DOMAIN PROPOSALS :
        PROPOSALS[id].total_deposit = SumOfDeposits(DEPOSITS, id)

\* a Deposit went through on a proposal that holds a record of 1 of its
\* proposer and a record of 2 of the other user: total_deposit is 3
C38_Witness ==
    /\ resp.action = "deposit" /\ resp.err = ""
    /\ \A u \in Users : MapHas(DEPOSITS, <<resp.id, u>>)
    /\ DEPOSITS[<<resp.id, PROPOSALS[resp.id].proposer>>].amount = 1
    /\ DEPOSITS[<<resp.id, resp.sender>>].amount = 2
    /\ PROPOSALS[resp.id].total_deposit = 3

\* the responses of a listing
Listed(status) == SeqRange(proposals_find_by_status(status))

\* C36: at any block height, every proposal that the Proposals query with
\* FindByStatus{s} returns is reported with status s in that response.
C36_ListedStatusAgrees ==
    \A s \in Statuses : \A r \in Listed(s) : r.status = s

\* the listing of the Open proposals holds a proposal that the same response
\* reports as Passed: its vote has ended and nobody has called Execute
C36_Witness ==
    /\ \E r \in Listed("Open") :
          /\ r.status = "Passed"
          /\ PROPOSALS[r.id].status = "Open"
          /\ is_expired(PROPOSALS[r.id].vote_ends_at, height)
    /\ Listed("Passed") = {}

\* the listing of the Pending proposals holds a proposal reported as Rejected
C36_WitnessPending ==
    \E r \in Listed("Pending") :
        r.status = "Rejected" /\ is_expired(PROPOSALS[r.id].deposit_ends_at, height)

\* every listing holds the proposals whose stored status is the one asked for,
\* and shows for each the status derived at the block of the query; the two
\* agree for a proposal that is Rejected or Executed, for a Pending one whose
\* deposit window is running and for an Open one whose vote is running.
ListedByStoredStatus ==
    \A s \in Statuses :
        /\ {r.id : r \in Listed(s)} = {id \in DOMAIN PROPOSALS : PROPOSALS[id].status = s}
        /\ \A r \in Listed(s) :
              /\ r.status = current_status(PROPOSALS[r.id], height)
              /\ (\/ s \in {"Rejected", "Executed"}
                  \/ /\ s = "Pending"
                     /\ ~is_expired(PROPOSALS[r.id].deposit_ends_at, height)
                     /\ PROPOSALS[r.id].total_deposit < PROPOSALS[r.id].deposit_base_amount
                  \/ s = "Open" /\ ~is_expired(PROPOSALS[r.id].vote_ends_at, height))
                 => r.status = s

\* the claims an address has outstanding
Outstanding(u) == Len(query_claims(CLAIMS, u))

\* C39: with an unstaking duration configured, an address never has more than
\* MAX_CLAIMS outstanding claims: an Unstake of an address that has MAX_CLAIMS
\* of them fails, an Unstake that fails leaves the staked balances, the staked
\* total, the claims and everything else unchanged, and an address that has
\* fewer than MAX_CLAIMS claims left, as after claiming the matured ones, is
\* not refused for its claims.
C39_ClaimsWithinMax ==
    /\ [](\A u \in Users : Outstanding(u) <= MAX_CLAIMS)
    /\ [](UNSTAKING_DURATION.kind # "None" =>
            \A u \in Users, a \in 1..TightFunds :
                /\ Outstanding(u) >= MAX_CLAIMS => unstake_error(u, a) # ""
                /\ (/\ Outstanding(u) >= MAX_CLAIMS
                    /\ SnapshotLoad(STAKED_BALANCES, u) >= a)
                      => unstake_error(u, a) = "TooManyClaims"
                /\ (/\ Outstanding(u) < MAX_CLAIMS
                    /\ SnapshotLoad(STAKED_BALANCES, u) >= a)
                      => unstake_error(u, a) = "")
    /\ [][(resp'.action = "unstake" /\ resp'.err # "")
            => UNCHANGED <<height, bank, daoVars, stakeVars>>]_vars
    /\ [][(resp'.action = "claim" /\ resp'.err = "")
            => /\ CLAIMS'[resp'.sender] = SelectSeq(query_claims(CLAIMS, resp'.sender), Waiting)
               /\ Len(CLAIMS'[resp'.sender]) < Outstanding(resp'.sender)]_vars

\* an Unstake of an address that holds MAX_CLAIMS claims and still has stake
\* was refused
C39_Witness ==
    /\ resp.action = "unstake" /\ resp.err = "TooManyClaims"
    /\ \E u \in Users :
          /\ Outstanding(u) = MAX_CLAIMS
          /\ SnapshotLoad(STAKED_BALANCES, u) > 0

\* an address unstaked its last token: it has unstaked MAX_CLAIMS + 1 times and
\* holds one claim, so it has claimed MAX_CLAIMS matured claims before
C39_WitnessAcceptedAgain ==
    /\ resp.action = "unstake" /\ resp.err = ""
    /\ SnapshotLoad(STAKED_BALANCES, resp.sender) = 0
    /\ Outstanding(resp.sender) = 1
    /\ bank[resp.sender] = TightFunds + MAX_CLAIMS

\* the sum of the staked balances of all addresses as read at height h
SumOfStakedAt(h) ==
    SumOver([u \in Users |-> query_staked_balance_at_height(u, h)], Users)

\* C40: in the staking contract, after any sequence of Stake, Unstake, Fund and
\* Claim calls, the staked total is the sum of the staked balances of all
\* addresses, as stored now and as read through the snapshots at the current
\* height and at every past height.
C40_TotalIsSumOfStakes ==
    /\ SnapshotLoad(STAKED_TOTAL, "total")
         = SumOver([u \in Users |-> SnapshotLoad(STAKED_BALANCES, u)], Users)
    /\ DOMAIN STAKED_BALANCES.cur \subseteq Users
    /\ \A h \in 0..height : query_total_staked_at_height(h) = SumOfStakedAt(h)

\* a stake was made in a funded contract, where a token mints less than one
\* unit of stake, and the total read at two past heights and the stored total
\* are three different amounts
C40_Witness ==
    /\ resp.action = "stake" /\ resp.err = ""
    /\ BALANCE > SnapshotLoad(STAKED_TOTAL, "total")
    /\ \E h1, h2 \in 1..height :
          /\ h1 < h2
          /\ query_total_staked_at_height(h1) # query_total_staked_at_height(h2)
          /\ query_total_staked_at_height(h2) # SnapshotLoad(STAKED_TOTAL, "total")
          /\ query_total_staked_at_height(h1) # SnapshotLoad(STAKED_TOTAL, "total")

\* a matured claim was paid while both users hold stake
C40_WitnessClaim ==
    /\ resp.action = "claim" /\ resp.err = ""
    /\ \A u \in Users : SnapshotLoad(STAKED_BALANCES, u) > 0
    /\ query_total_staked_at_height(1) # SnapshotLoad(STAKED_TOTAL, "total")

====
